---- MODULE Spec2Model ----
(***************************************************************************)
(* Session/task correlation layer of elevenlabs-agent.                     *)
(*                                                                         *)
(* State: the Redis key space of the Session Store (elevenlabs:session:)   *)
(* and of the Task Registry (cursor_task:), the SessionService liveness    *)
(* flag, the external collaborators' observable effects (conversations     *)
(* created, messages appended, executions submitted, pushes delivered),    *)
(* and the in-flight HTTP handlers, each suspended at one of its awaits.   *)
(* One action is one resumption of a handler: the awaited I/O takes effect *)
(* and the synchronous code up to the next await runs.                     *)
(*                                                                         *)
(* The feature gate (ELEVENLABS_AGENT_ENABLED) and WEBHOOK_SECRET are read *)
(* from the environment, fixed for a run and arbitrary at start.           *)
(*                                                                         *)
(* Encoding: the JavaScript values undefined / null / missing property are *)
(* the empty string (0 for a time stamp); a record whose id is "" is null. *)
(***************************************************************************)
EXTENDS Integers, FiniteSets, Sequences, TLC

(* ------------------------------ bounds -------------------------------- *)
\* handlers that may be suspended at an await at the same time
MaxInFlight == 2
\* clock advances explored
MaxTicks == 1
\* conversations the external conversation service hands out
MaxConvs == 2

(* ------------------------- program constants -------------------------- *)
SESSION_TTL == 3600
TTL == 86400

(* ----------------------------- value sets ----------------------------- *)
SessionIds == {"s1", "s2"}
AgentIds == {"a1"}
ToolNames == {"t1", "t2"}
RequestIds == {"r1", "r2"}
WsUrls == {"w1"}
Outputs == {"out"}
Errors == {"err"}
\* conversation ids a caller may name in a payload or path
PayloadConvIds == {"c1"}
\* amounts by which the clock may advance between two handler steps
Deltas == {1, SESSION_TTL, TTL}

Slots == 1..MaxInFlight

VARIABLES
  now,             \* wall clock, seconds
  ticks,           \* clock advances so far
  sessions,        \* Redis: elevenlabs:session:<id> -> [val, exp]
  tasks,           \* Redis: cursor_task:<id> -> [val, exp]
  redisUp,         \* whether Redis commands currently succeed
  redisAvailable,  \* SessionService.redisAvailable
  convs,           \* conversations created at the conversation service
  slots,           \* the in-flight handlers
  effect,          \* the outbound call that took effect in the last step
  response,        \* the handler that answered in the last step, as it ended
  env              \* process.env: ELEVENLABS_AGENT_ENABLED, WEBHOOK_SECRET,
                   \* ELEVENLABS_API_KEY

vars == <<now, ticks, sessions, tasks, redisUp, redisAvailable, convs, slots,
          effect, response, env>>

(* ------------------------------ records ------------------------------- *)
NoCallback == [requestId |-> "", success |-> FALSE, timestamp |-> ""]

\* AgentSession (null)
NoSession ==
  [sessionId |-> "", agentId |-> "", conversationId |-> "",
   agentConversationId |-> "", createdAt |-> 0, lastAccessedAt |-> 0,
   wsUrl |-> "", lastCallback |-> NoCallback]

\* CallbackTask (null)
NoTask ==
  [taskId |-> "", conversationId |-> "", sessionPayload |-> "", wsUrl |-> "",
   pending |-> FALSE, createdAt |-> 0, completedAt |-> 0, toolName |-> "",
   toolArgs |-> "", requestId |-> "", result |-> "", error |-> ""]

AbsentSession == [val |-> NoSession, exp |-> 0]
AbsentTask == [val |-> NoTask, exp |-> 0]

\* request of the three routes, one shape: the body fields of each route
\* (conversation_id also stands for conversationId of the callback payload
\* and for :id of the registration path) and the x-webhook-secret header
NoBody ==
  [agent_id |-> "", session_id |-> "", tool_name |-> "", tool_args |-> "",
   conversation_id |-> "", requestId |-> "", success |-> FALSE,
   output |-> "", error |-> "", sessionUrl |-> "", secret |-> "",
   timestamp |-> ""]

\* a handler: its route, the await it is suspended at, its request, the
\* status of the response once sent, and its local variables
Idle ==
  [kind |-> "idle", pc |-> "idle", body |-> NoBody, status |-> 0,
   session |-> NoSession, agentConversationId |-> "", conversationId |-> "",
   requestId |-> "", wsUrl |-> "", callbackTask |-> NoTask,
   existing |-> NoTask, expiration |-> 0, stamp |-> 0,
   op |-> "", keys |-> <<>>, listed |-> <<>>, threw |-> FALSE]

\* the two SessionService instances (webhook routes, conversation routes)
Services == {"webhook", "conversation"}

ConvName(n) == IF n = 1 THEN "ac1" ELSE IF n = 2 THEN "ac2" ELSE "ac3"

\* outbound calls: createConversation, addMessage, executeAsync, pushMessage
NoEffect ==
  [op |-> "none", conversationId |-> "", text |-> <<>>, wsUrl |-> "",
   tool_name |-> "", tool_args |-> ""]

(* --------------------------- Redis commands --------------------------- *)
\* GET key: the value, or null when the key is absent or expired
RedisGetSession(id) ==
  IF id \in SessionIds /\ sessions[id].exp > now THEN sessions[id].val
  ELSE NoSession

RedisGetTask(id) ==
  IF id \in RequestIds /\ tasks[id].exp > now THEN tasks[id].val ELSE NoTask

\* TTL key: remaining seconds, -2 when the key does not exist
RedisTtlTask(id) ==
  IF id \in RequestIds /\ tasks[id].exp > now THEN tasks[id].exp - now ELSE -2

\* a registry that keeps its tasks under one key with one time to live
RedisSetexTaskShared(id, seconds, val) ==
  [r \in RequestIds |->
     IF r = id THEN [val |-> val, exp |-> now + seconds]
     ELSE IF tasks[r].exp > now THEN [tasks[r] EXCEPT !.exp = now + seconds]
     ELSE tasks[r]]

\* a write that keeps the expiry a live key already has
RedisSetexSessionAbsolute(id, seconds, val) ==
  [sessions EXCEPT ![id] = [val |-> val,
                            exp |-> IF sessions[id].exp > now
                                    THEN sessions[id].exp
                                    ELSE now + seconds]]

\* a write that keeps the callback the stored record holds
RedisSetexSessionMerging(id, seconds, val) ==
  [sessions EXCEPT ![id] =
     [val |-> IF sessions[id].exp > now
              THEN [val EXCEPT !.lastCallback = sessions[id].val.lastCallback]
              ELSE val,
      exp |-> now + seconds]]

\* SETEX key seconds value
RedisSetexSession(id, seconds, val) ==
  [sessions EXCEPT ![id] = [val |-> val, exp |-> now + seconds]]

RedisSetexTask(id, seconds, val) ==
  [tasks EXCEPT ![id] = [val |-> val, exp |-> now + seconds]]

(* --------------------------- initial state ---------------------------- *)
\* values of WEBHOOK_SECRET: unset, or set
Secrets == {"", "sec"}

\* process.env.ELEVENLABS_AGENT_ENABLED when the variable is not set
Unset == "undefined"

\* values of ELEVENLABS_AGENT_ENABLED and of ELEVENLABS_API_KEY
Flags == {"true", "false"}
ApiKeys == {"key"}

\* variant: the flag is compared without regard to case
isElevenLabsEnabledAnyCase ==
  env.enabled \in {"true", "True", "TRUE", "tRuE"}

\* isElevenLabsEnabled: the flag is compared with three spellings
isElevenLabsEnabled ==
  env.enabled = "true" \/ env.enabled = "True" \/ env.enabled = "TRUE"

\* ElevenLabsApiClient.isConfigured
isConfigured == env.apiKey # ""

\* after construction: nothing stored, Redis not yet connected (lazyConnect),
\* redisAvailable = false until the first connect event
Start(Fs, Ks) ==
  /\ now = 1
  /\ ticks = 0
  /\ sessions = [s \in SessionIds |-> AbsentSession]
  /\ tasks = [r \in RequestIds |-> AbsentTask]
  /\ redisUp = FALSE
  /\ redisAvailable = [svc \in Services |-> FALSE]
  /\ convs = 0
  /\ slots = [i \in Slots |-> Idle]
  /\ effect = NoEffect
  /\ response = Idle
  /\ env \in [enabled : Fs, webhookSecret : Secrets, apiKey : Ks]

Init == Start(Flags, ApiKeys)

(* ------------------------ environment actions ------------------------- *)
Quiet == effect' = NoEffect /\ response' = Idle /\ UNCHANGED env

\* time passes; keys whose time to live has run out are gone
Tick(Ds) ==
  \E d \in Ds :
    /\ ticks < MaxTicks
    /\ now' = now + d
    /\ ticks' = ticks + 1
    /\ sessions' = [s \in SessionIds |->
                      IF sessions[s].exp <= now + d THEN AbsentSession
                      ELSE sessions[s]]
    /\ tasks' = [r \in RequestIds |->
                   IF tasks[r].exp <= now + d THEN AbsentTask ELSE tasks[r]]
    /\ Quiet
    /\ UNCHANGED <<redisUp, redisAvailable, convs, slots>>

\* this.redis.on('connect', ...), in every SessionService
OnConnect ==
  /\ ~redisUp
  /\ redisUp' = TRUE
  /\ redisAvailable' = [svc \in Services |-> TRUE]
  /\ Quiet
  /\ UNCHANGED <<now, ticks, sessions, tasks, convs, slots>>

\* the connection to Redis is lost: commands fail from now on
ConnectionLost ==
  /\ redisUp
  /\ redisUp' = FALSE
  /\ Quiet
  /\ UNCHANGED <<now, ticks, sessions, tasks, redisAvailable, convs, slots>>

\* this.redis.on('error', ...), in every SessionService
OnError ==
  /\ ~redisUp
  /\ \E svc \in Services : redisAvailable[svc]
  /\ redisAvailable' = [svc \in Services |-> FALSE]
  /\ Quiet
  /\ UNCHANGED <<now, ticks, sessions, tasks, redisUp, convs, slots>>

(* ------------------------- handler plumbing --------------------------- *)
\* handler i goes on as p, having made the outbound call eff; a handler that
\* has answered leaves its slot
Resume(i, p, eff) ==
  /\ slots' = [slots EXCEPT ![i] = IF p.pc = "done" THEN Idle ELSE p]
  /\ response' = IF p.pc = "done" THEN p ELSE Idle
  /\ effect' = eff
  /\ UNCHANGED env

At(i, kind, pc) == slots[i].kind = kind /\ slots[i].pc = pc

\* a request is taken by the first free slot (slots are interchangeable)
Free(i) == At(i, "idle", "idle") /\ \A j \in Slots : j < i => ~At(j, "idle", "idle")

\* res.status(code).json(...): the handler ends
Respond(p, code) == [p EXCEPT !.pc = "done", !.status = code]

(* --------------------------- GET /signed-url -------------------------- *)
\* what the fetch of the signed URL may come to: 200, a status the route
\* passes on (404), a status it does not pass on (300), no response at all (0)
FetchOutcomes == {200, 404, 300, 0}

SignedUrlEffect == [NoEffect EXCEPT !.op = "getSignedUrl"]

\* request received: the feature gate, the API key check, then getSignedUrl
\* up to its fetch
ReceiveSignedUrl(i, Ids) ==
  \E agentId \in Ids :
    /\ Free(i)
    /\ LET p == [Idle EXCEPT !.kind = "signedUrl", !.body.agent_id = agentId]
       IN IF ~isElevenLabsEnabled THEN Resume(i, Respond(p, 503), NoEffect)
          ELSE IF ~isConfigured THEN Resume(i, Respond(p, 500), NoEffect)
          ELSE Resume(i, [p EXCEPT !.pc = "getSignedUrl"], SignedUrlEffect)
    /\ UNCHANGED <<now, ticks, sessions, tasks, redisUp, redisAvailable,
                   convs>>

\* the fetch settles: the signed URL is answered, or the error's status when
\* it lies in 400..599, otherwise 500
SU_GetSignedUrl(i) ==
  \E outcome \in FetchOutcomes :
    /\ At(i, "signedUrl", "getSignedUrl")
    /\ Resume(i, Respond(slots[i],
                         IF outcome = 200 THEN 200
                         ELSE IF outcome >= 400 /\ outcome < 600 THEN outcome
                         ELSE 500),
              NoEffect)
    /\ UNCHANGED <<now, ticks, sessions, tasks, redisUp, redisAvailable,
                   convs>>

SignedUrlStep(i, Ids) == ReceiveSignedUrl(i, Ids) \/ SU_GetSignedUrl(i)

\* SessionService.createOrUpdateSession up to its await: when the flag is
\* down the write is skipped and the caller goes on as `after`; otherwise the
\* value is serialized with lastAccessedAt = now and SETEX is issued
CallCreateOrUpdateSession(p, svc, pcSetex, after) ==
  IF redisAvailable[svc] THEN [p EXCEPT !.pc = pcSetex, !.stamp = now]
  ELSE after

\* a write whose serialization loses the metadata of the session
SetexSessionReplyBare(p, svc) ==
  IF redisUp
  THEN /\ sessions' = RedisSetexSession(p.session.sessionId, SESSION_TTL,
                         [p.session EXCEPT !.lastAccessedAt = p.stamp,
                                           !.wsUrl = "",
                                           !.lastCallback = NoCallback])
       /\ UNCHANGED redisAvailable
  ELSE /\ redisAvailable' = [redisAvailable EXCEPT ![svc] = FALSE]
       /\ UNCHANGED sessions

\* a write whose catch block logs the failure and leaves the flag alone
SetexSessionReplyFlagKept(p, svc) ==
  /\ sessions' = IF redisUp
                 THEN RedisSetexSession(p.session.sessionId, SESSION_TTL,
                         [p.session EXCEPT !.lastAccessedAt = p.stamp])
                 ELSE sessions
  /\ UNCHANGED redisAvailable

\* the reply of that SETEX: the key is written with the full window, or the
\* command fails and the catch block clears the flag
SetexSessionReply(p, svc) ==
  IF redisUp
  THEN /\ sessions' = RedisSetexSession(p.session.sessionId, SESSION_TTL,
                         [p.session EXCEPT !.lastAccessedAt = p.stamp])
       /\ UNCHANGED redisAvailable
  ELSE /\ redisAvailable' = [redisAvailable EXCEPT ![svc] = FALSE]
       /\ UNCHANGED sessions

(* ------------------------- POST /agent-tools -------------------------- *)
ToolBody(a, s, t, args, c) ==
  [NoBody EXCEPT !.agent_id = a, !.session_id = s, !.tool_name = t,
                 !.tool_args = args, !.conversation_id = c]

\* the same request carrying the header x-webhook-secret
WithSecret(body, secret) == [body EXCEPT !.secret = secret]

\* the payloads explored: two tools, one called without arguments and without
\* a conversation id, one with both; a payload lacking each required field;
\* and requests with the right and with a wrong x-webhook-secret
ToolBodies ==
  { ToolBody("a1", "s1", "t1", "", ""), ToolBody("a1", "s1", "t2", "x", "c1"),
    ToolBody("", "s1", "t1", "", ""), ToolBody("a1", "", "t1", "", ""),
    ToolBody("a1", "s1", "", "", "c1"),
    WithSecret(ToolBody("a1", "s1", "t1", "", ""), "sec"),
    WithSecret(ToolBody("a1", "s1", "t1", "", ""), "bad"),
    WithSecret(ToolBody("a1", "s1", "", "", ""), "bad") }

\* a validation that forgets tool_name
ValidToolBodyLax(body) == body.agent_id # "" /\ body.session_id # ""

ValidToolBody(body) ==
  body.agent_id # "" /\ body.session_id # "" /\ body.tool_name # ""

\* a check that also refuses a request without the header
SecretMismatchStrict(body) ==
  env.webhookSecret # "" /\ body.secret # env.webhookSecret

\* webhookSecret && providedSecret && providedSecret !== webhookSecret
SecretMismatch(body) ==
  env.webhookSecret # "" /\ body.secret # "" /\ body.secret # env.webhookSecret

\* const conversationId = session?.conversationId || body.conversation_id;
\* then executeAsync is called
StartExecute(p) ==
  [p EXCEPT !.conversationId = IF p.session.conversationId # ""
                                 THEN p.session.conversationId
                                 ELSE p.body.conversation_id,
            !.pc = "executeAsync"]

\* existing-session branch after createOrUpdateSession returned
AfterSaveExisting(p) ==
  IF p.agentConversationId # "" THEN [p EXCEPT !.pc = "addMessageExisting"]
  ELSE StartExecute(p)

\* a handler that keeps the conversation id of the session it found
AfterGetSessionKeepsConversation(p, found) ==
  IF found.sessionId = ""
  THEN [p EXCEPT !.session = NoSession, !.pc = "createConversation"]
  ELSE LET s1 == [found EXCEPT !.lastAccessedAt = now]
           q == [p EXCEPT !.session = s1,
                          !.agentConversationId = s1.agentConversationId]
       IN IF q.agentConversationId = ""
          THEN [q EXCEPT !.pc = "createConversationExisting"]
          ELSE CallCreateOrUpdateSession(q, "webhook", "saveExisting",
                                         AfterSaveExisting(q))

\* a handler that stamps a found session as if it were new
AfterGetSessionRestamped(p, found) ==
  IF found.sessionId = ""
  THEN [p EXCEPT !.session = NoSession, !.pc = "createConversation"]
  ELSE LET s1 == [found EXCEPT !.lastAccessedAt = now, !.createdAt = now,
                    !.conversationId = IF p.body.conversation_id # ""
                                       THEN p.body.conversation_id ELSE @]
           q == [p EXCEPT !.session = s1,
                          !.agentConversationId = s1.agentConversationId]
       IN IF q.agentConversationId = ""
          THEN [q EXCEPT !.pc = "createConversationExisting"]
          ELSE CallCreateOrUpdateSession(q, "webhook", "saveExisting",
                                         AfterSaveExisting(q))

\* the branch taken once getSession has returned `found`
AfterGetSession(p, found) ==
  IF found.sessionId = ""
  THEN [p EXCEPT !.session = NoSession, !.pc = "createConversation"]
  ELSE LET s1 == [found EXCEPT !.lastAccessedAt = now,
                    !.conversationId = IF p.body.conversation_id # ""
                                       THEN p.body.conversation_id ELSE @]
           q == [p EXCEPT !.session = s1,
                          !.agentConversationId = s1.agentConversationId]
       IN IF q.agentConversationId = ""
          THEN [q EXCEPT !.pc = "createConversationExisting"]
          ELSE CallCreateOrUpdateSession(q, "webhook", "saveExisting",
                                         AfterSaveExisting(q))

\* request received: the feature gate, validation, the secret check, then
\* getSession up to its await
ReceiveToolCall(i, Bodies) ==
  \E body \in Bodies :
    /\ Free(i)
    /\ LET p == [Idle EXCEPT !.kind = "tool", !.body = body]
       IN Resume(i, IF ~isElevenLabsEnabled THEN Respond(p, 503)
                    ELSE IF ~ValidToolBody(body) THEN Respond(p, 400)
                    ELSE IF SecretMismatch(body) THEN Respond(p, 401)
                    ELSE IF redisAvailable["webhook"]
                         THEN [p EXCEPT !.pc = "getSession"]
                         ELSE AfterGetSession(p, NoSession),
                 NoEffect)
    /\ UNCHANGED <<now, ticks, sessions, tasks, redisUp, redisAvailable,
                   convs>>

\* reply of GET in getSession (an error is caught and yields null)
TC_GetSession(i) ==
  /\ At(i, "tool", "getSession")
  /\ Resume(i, AfterGetSession(slots[i],
                  IF redisUp THEN RedisGetSession(slots[i].body.session_id)
                  ELSE NoSession),
            NoEffect)
  /\ UNCHANGED <<now, ticks, sessions, tasks, redisUp, redisAvailable, convs>>

\* new-session branch: createConversation succeeded; the session is built and
\* createOrUpdateSession is called
NewSessionCreated(p, acid) ==
  LET s1 == [NoSession EXCEPT
               !.sessionId = p.body.session_id,
               !.agentId = p.body.agent_id,
               !.conversationId = IF p.body.conversation_id # ""
                                  THEN p.body.conversation_id ELSE acid,
               !.agentConversationId = acid,
               !.createdAt = now,
               !.lastAccessedAt = now]
      q == [p EXCEPT !.session = s1, !.agentConversationId = acid]
  IN CallCreateOrUpdateSession(q, "webhook", "saveNew",
                               [q EXCEPT !.pc = "addMessageNew"])

\* new-session branch: createConversation failed; the catch block logs and
\* the flow continues
NewSessionFailed(p) == StartExecute(p)

ConvEffect(acid) == [NoEffect EXCEPT !.op = "createConversation",
                                     !.conversationId = acid]

TC_CreateConversation(i) ==
  /\ At(i, "tool", "createConversation")
  /\ \/ /\ convs < MaxConvs
        /\ convs' = convs + 1
        /\ Resume(i, NewSessionCreated(slots[i], ConvName(convs + 1)),
                  ConvEffect(ConvName(convs + 1)))
     \/ /\ UNCHANGED convs
        /\ Resume(i, NewSessionFailed(slots[i]), NoEffect)
  /\ UNCHANGED <<now, ticks, sessions, tasks, redisUp, redisAvailable>>

TC_SaveNew(i) ==
  /\ At(i, "tool", "saveNew")
  /\ SetexSessionReply(slots[i], "webhook")
  /\ Resume(i, [slots[i] EXCEPT !.pc = "addMessageNew"], NoEffect)
  /\ UNCHANGED <<now, ticks, tasks, redisUp, convs>>

\* `Tool request: <tool_name> with args: <tool_args>`
ToolMessage(p) ==
  [NoEffect EXCEPT !.op = "addMessage",
                   !.conversationId = p.agentConversationId,
                   !.text = <<"user", "Tool request", p.body.tool_name,
                              p.body.tool_args>>]

\* addMessage in the new-session branch; a failure is caught by the same try
TC_AddMessageNew(i) ==
  /\ At(i, "tool", "addMessageNew")
  /\ \/ Resume(i, StartExecute(slots[i]), ToolMessage(slots[i]))
     \/ Resume(i, StartExecute(slots[i]), NoEffect)
  /\ UNCHANGED <<now, ticks, sessions, tasks, redisUp, redisAvailable, convs>>

\* existing session without agentConversationId: createConversation, best
\* effort, then createOrUpdateSession
TC_CreateConversationExisting(i) ==
  /\ At(i, "tool", "createConversationExisting")
  /\ \/ /\ convs < MaxConvs
        /\ convs' = convs + 1
        /\ LET acid == ConvName(convs + 1)
               q == [slots[i] EXCEPT !.agentConversationId = acid,
                                     !.session.agentConversationId = acid]
           IN Resume(i, CallCreateOrUpdateSession(q, "webhook",
                           "saveExisting", AfterSaveExisting(q)),
                     ConvEffect(acid))
     \/ /\ UNCHANGED convs
        /\ Resume(i, CallCreateOrUpdateSession(slots[i], "webhook",
                        "saveExisting", AfterSaveExisting(slots[i])),
                  NoEffect)
  /\ UNCHANGED <<now, ticks, sessions, tasks, redisUp, redisAvailable>>

TC_SaveExisting(i) ==
  /\ At(i, "tool", "saveExisting")
  /\ SetexSessionReply(slots[i], "webhook")
  /\ Resume(i, AfterSaveExisting(slots[i]), NoEffect)
  /\ UNCHANGED <<now, ticks, tasks, redisUp, convs>>

TC_AddMessageExisting(i) ==
  /\ At(i, "tool", "addMessageExisting")
  /\ \/ Resume(i, StartExecute(slots[i]), ToolMessage(slots[i]))
     \/ Resume(i, StartExecute(slots[i]), NoEffect)
  /\ UNCHANGED <<now, ticks, sessions, tasks, redisUp, redisAvailable, convs>>

\* a handler that registers a task without testing wsUrl
RegistersTaskAlways(wsUrl, requestId) == requestId # ""

\* whether the handler registers a callback task for the accepted request
RegistersTask(wsUrl, requestId) == wsUrl # "" /\ requestId # ""

\* executeAsync returned requestId: read wsUrl from the session and call
\* createTask (which stamps createdAt) or respond at once
ExecuteSucceeded(p, rid) ==
  LET q == [p EXCEPT !.requestId = rid, !.wsUrl = p.session.wsUrl]
  IN IF RegistersTask(q.wsUrl, rid)
     THEN [q EXCEPT !.pc = "createTask", !.stamp = now]
     ELSE Respond(q, 200)

\* a catch block that swallows the failure of executeAsync
ExecuteFailedSwallowed(p) == Respond(p, 200)

\* executeAsync threw: the inner catch answers 500
ExecuteFailed(p) == Respond(p, 500)

ExecuteEffect(p) ==
  [NoEffect EXCEPT !.op = "executeAsync",
                   !.conversationId = p.conversationId,
                   !.tool_name = p.body.tool_name,
                   !.tool_args = p.body.tool_args]

TC_ExecuteAsync(i, Rids) ==
  /\ At(i, "tool", "executeAsync")
  /\ \/ \E rid \in Rids :
          Resume(i, ExecuteSucceeded(slots[i], rid), ExecuteEffect(slots[i]))
     \/ Resume(i, ExecuteFailed(slots[i]), NoEffect)
  /\ UNCHANGED <<now, ticks, sessions, tasks, redisUp, redisAvailable, convs>>

\* a createTask that stores the task as already settled
NewTaskSettled(p) ==
  [NoTask EXCEPT !.taskId = p.requestId,
                 !.conversationId = p.conversationId,
                 !.wsUrl = p.wsUrl,
                 !.toolName = p.body.tool_name,
                 !.toolArgs = p.body.tool_args,
                 !.requestId = p.requestId,
                 !.pending = FALSE,
                 !.createdAt = p.stamp,
                 !.completedAt = p.stamp]

\* the record createTask serializes
NewTask(p) ==
  [NoTask EXCEPT !.taskId = p.requestId,
                 !.conversationId = p.conversationId,
                 !.wsUrl = p.wsUrl,
                 !.toolName = p.body.tool_name,
                 !.toolArgs = p.body.tool_args,
                 !.requestId = p.requestId,
                 !.pending = TRUE,
                 !.createdAt = p.stamp]

\* a handler that answers 500 when createTask fails
TC_CreateTaskSurfaced(i) ==
  /\ At(i, "tool", "createTask")
  /\ IF redisUp
     THEN tasks' = RedisSetexTask(slots[i].requestId, TTL, NewTask(slots[i]))
     ELSE UNCHANGED tasks
  /\ Resume(i, Respond(slots[i], IF redisUp THEN 200 ELSE 500), NoEffect)
  /\ UNCHANGED <<now, ticks, sessions, redisUp, redisAvailable, convs>>

\* reply of SETEX in createTask; a failure is rethrown (threw) and caught by
\* the handler, which answers success either way
TC_CreateTask(i) ==
  /\ At(i, "tool", "createTask")
  /\ IF redisUp
     THEN tasks' = RedisSetexTask(slots[i].requestId, TTL, NewTask(slots[i]))
     ELSE UNCHANGED tasks
  /\ Resume(i, Respond([slots[i] EXCEPT !.threw = ~redisUp], 200), NoEffect)
  /\ UNCHANGED <<now, ticks, sessions, redisUp, redisAvailable, convs>>

ToolCallStep(i, Bodies, Rids) ==
  \/ ReceiveToolCall(i, Bodies)
  \/ TC_GetSession(i)
  \/ TC_CreateConversation(i)
  \/ TC_SaveNew(i)
  \/ TC_AddMessageNew(i)
  \/ TC_CreateConversationExisting(i)
  \/ TC_SaveExisting(i)
  \/ TC_AddMessageExisting(i)
  \/ TC_ExecuteAsync(i, Rids)
  \/ TC_CreateTask(i)

(* -------------- POST /agent-conversations/api/:id/session ------------- *)
RegisterBody(url, s, c) ==
  [NoBody EXCEPT !.sessionUrl = url, !.session_id = s, !.conversation_id = c]

RegisterBodies ==
  { RegisterBody(url, s, c) :
      url \in WsUrls \cup {""}, s \in {"s1"}, c \in PayloadConvIds }

\* `session-${Date.now()}`: the id given to a registration that names none
GeneratedSessionId == "s2"

\* a registration that keeps sessionUrl but not under metadata.wsUrl
RegisteredSessionNoAddress(body) ==
  [NoSession EXCEPT !.sessionId = IF body.session_id # "" THEN body.session_id
                                  ELSE GeneratedSessionId,
                    !.agentId = "default",
                    !.conversationId = body.conversation_id,
                    !.createdAt = now,
                    !.lastAccessedAt = now]

\* the session the route builds from the request
RegisteredSession(body) ==
  [NoSession EXCEPT !.sessionId = IF body.session_id # "" THEN body.session_id
                                  ELSE GeneratedSessionId,
                    !.agentId = "default",
                    !.conversationId = body.conversation_id,
                    !.createdAt = now,
                    !.lastAccessedAt = now,
                    !.wsUrl = body.sessionUrl]

ReceiveRegister(i, Bodies) ==
  \E body \in Bodies :
    /\ Free(i)
    /\ LET p == [Idle EXCEPT !.kind = "register", !.body = body]
           q == [p EXCEPT !.session = RegisteredSession(body)]
       IN Resume(i, IF ~isElevenLabsEnabled THEN Respond(p, 503)
                    ELSE IF body.sessionUrl = "" THEN Respond(p, 400)
                    ELSE CallCreateOrUpdateSession(q, "conversation",
                            "saveRegistered", Respond(q, 200)),
                 NoEffect)
    /\ UNCHANGED <<now, ticks, sessions, tasks, redisUp, redisAvailable,
                   convs>>

REG_Save(i) ==
  /\ At(i, "register", "saveRegistered")
  /\ SetexSessionReply(slots[i], "conversation")
  /\ Resume(i, Respond(slots[i], 200), NoEffect)
  /\ UNCHANGED <<now, ticks, tasks, redisUp, convs>>

RegisterStep(i, Bodies) == ReceiveRegister(i, Bodies) \/ REG_Save(i)

(* ---------------------------- POST /callback --------------------------- *)
CallbackBody(rid, c, ok, output, error) ==
  [NoBody EXCEPT !.requestId = rid, !.conversation_id = c, !.success = ok,
                 !.output = output, !.error = error, !.timestamp = "ts1"]

\* the callbacks explored: a success carries an output or none, a failure an
\* error text or none; one callback lacks its requestId
CallbackBodies ==
  { CallbackBody(rid, c, TRUE, o, "") :
      rid \in RequestIds, c \in PayloadConvIds \cup {""}, o \in Outputs }
  \cup { CallbackBody(rid, c, FALSE, "", e) :
      rid \in RequestIds, c \in PayloadConvIds \cup {""}, e \in Errors }
  \cup { CallbackBody("", "c1", TRUE, "out", "") }

\* SessionService.findSessionByConversationId: the live sessions a scan of
\* the session keys can return for conversation id c
SessionsOfConversation(c) ==
  { sessions[s].val : s \in { k \in SessionIds :
        sessions[k].exp > now /\ sessions[k].val.conversationId = c } }

\* a message that embeds the output whether or not the task succeeded
constructCompletionMessageOutputFirst(success, output, error) ==
  IF success \/ output # ""
  THEN <<"input_text", "Your code task is complete.",
         IF output # "" THEN output ELSE "Task completed successfully">>
  ELSE <<"input_text", "Your code task encountered an error.",
         IF error # "" THEN error ELSE "Task failed with unknown error">>

\* ElevenLabsPushService.constructCompletionMessage
constructCompletionMessage(success, output, error) ==
  IF success
  THEN <<"input_text", "Your code task is complete.",
         IF output # "" THEN output ELSE "Task completed successfully">>
  ELSE <<"input_text", "Your code task encountered an error.",
         IF error # "" THEN error ELSE "Task failed with unknown error">>

\* body.success ? { output: body.output } : undefined; an output that is
\* undefined is dropped by JSON.stringify, leaving {}
ResultOf(body) ==
  IF body.success THEN (IF body.output # "" THEN body.output ELSE "{}") ELSE ""

\* body.success ? undefined : body.error
ErrorOf(body) == IF body.success THEN "" ELSE body.error

\* the handler's last part: the response
CallbackDone(p) == Respond(p, 200)

\* after createOrUpdateSession: append the result to the agent conversation
AfterCallbackSave(p) ==
  IF p.session.agentConversationId # "" THEN [p EXCEPT !.pc = "cbAddMessage"]
  ELSE CallbackDone(p)

\* a write-back that starts the metadata of the session afresh
AfterMarkCompletedFreshMetadata(p) ==
  IF p.session.sessionId # ""
  THEN LET q == [p EXCEPT !.session.lastAccessedAt = now,
                          !.session.wsUrl = "",
                          !.session.lastCallback =
                             [requestId |-> p.body.requestId,
                              success |-> p.body.success,
                              timestamp |-> p.body.timestamp]]
       IN CallCreateOrUpdateSession(q, "webhook", "cbSaveSession",
                                    AfterCallbackSave(q))
  ELSE CallbackDone(p)

\* if (session && sessionService): refresh the session and write it back
AfterMarkCompleted(p) ==
  IF p.session.sessionId # ""
  THEN LET q == [p EXCEPT !.session.lastAccessedAt = now,
                          !.session.lastCallback =
                             [requestId |-> p.body.requestId,
                              success |-> p.body.success,
                              timestamp |-> p.body.timestamp]]
       IN CallCreateOrUpdateSession(q, "webhook", "cbSaveSession",
                                    AfterCallbackSave(q))
  ELSE CallbackDone(p)

\* if (callbackQueue && callbackTask && body.requestId): markCompleted stamps
\* completedAt and updateTask issues its getTask
AfterPush(p) ==
  IF p.callbackTask.taskId # ""
  THEN [p EXCEPT !.pc = "cbUpdateGet", !.stamp = now]
  ELSE AfterMarkCompleted(p)

\* a resolution that prefers the address of the session
ResolveWsUrlSessionFirst(task, session) ==
  IF session.wsUrl # "" THEN session.wsUrl ELSE task.wsUrl

\* const wsUrl = callbackTask?.wsUrl || session?.metadata?.wsUrl
ResolveWsUrl(task, session) ==
  IF task.wsUrl # "" THEN task.wsUrl ELSE session.wsUrl

\* a handler that pushes without testing wsUrl
AfterFindSessionAlwaysPush(p, found) ==
  [p EXCEPT !.session = found, !.wsUrl = ResolveWsUrl(p.callbackTask, found),
            !.pc = "cbPush"]

\* once both lookups are done: push if an address was resolved
AfterFindSession(p, found) ==
  LET q == [p EXCEPT !.session = found,
                     !.wsUrl = ResolveWsUrl(p.callbackTask, found)]
  IN IF q.wsUrl # "" THEN [q EXCEPT !.pc = "cbPush"] ELSE AfterPush(q)

\* once getTask has returned: the session lookup, when a conversation id came
AfterGetTask(p, task) ==
  LET q == [p EXCEPT !.callbackTask = task]
  IN IF q.body.conversation_id # ""
     THEN IF redisAvailable["webhook"] THEN [q EXCEPT !.pc = "cbFindSession"]
          ELSE AfterFindSession(q, NoSession)
     ELSE AfterFindSession(q, NoSession)

\* a handler that does not look for the requestId
ReceiveCallbackUnvalidated(i, Bodies) ==
  \E body \in Bodies :
    /\ Free(i)
    /\ LET p == [Idle EXCEPT !.kind = "callback", !.body = body]
       IN Resume(i, IF ~isElevenLabsEnabled THEN Respond(p, 503)
                    ELSE [p EXCEPT !.pc = "cbGetTask"],
                 NoEffect)
    /\ UNCHANGED <<now, ticks, sessions, tasks, redisUp, redisAvailable,
                   convs>>

ReceiveCallback(i, Bodies) ==
  \E body \in Bodies :
    /\ Free(i)
    /\ LET p == [Idle EXCEPT !.kind = "callback", !.body = body]
       IN Resume(i, IF ~isElevenLabsEnabled THEN Respond(p, 503)
                    ELSE IF body.requestId = "" THEN Respond(p, 400)
                    ELSE [p EXCEPT !.pc = "cbGetTask"],
                 NoEffect)
    /\ UNCHANGED <<now, ticks, sessions, tasks, redisUp, redisAvailable,
                   convs>>

\* reply of GET in getTask (an error is caught there and yields null)
CB_GetTask(i) ==
  /\ At(i, "callback", "cbGetTask")
  /\ Resume(i, AfterGetTask(slots[i],
                  IF redisUp THEN RedisGetTask(slots[i].body.requestId)
                  ELSE NoTask),
            NoEffect)
  /\ UNCHANGED <<now, ticks, sessions, tasks, redisUp, redisAvailable, convs>>

\* the scan of findSessionByConversationId has finished
CB_FindSession(i) ==
  /\ At(i, "callback", "cbFindSession")
  /\ LET cands == IF redisUp
                  THEN SessionsOfConversation(slots[i].body.conversation_id)
                  ELSE {}
     IN \/ \E found \in cands :
             Resume(i, AfterFindSession(slots[i], found), NoEffect)
        \/ /\ cands = {}
           /\ Resume(i, AfterFindSession(slots[i], NoSession), NoEffect)
  /\ UNCHANGED <<now, ticks, sessions, tasks, redisUp, redisAvailable, convs>>

PushEffect(p) ==
  [NoEffect EXCEPT !.op = "pushMessage", !.wsUrl = p.wsUrl,
                   !.text = constructCompletionMessage(p.body.success,
                               p.body.output, p.body.error)]

\* ElevenLabsPushService.pushMessage called directly with the completion
\* message of a callback: it throws at once when wsUrl is empty
PushDirect(i, Urls, Bodies) ==
  \E url \in Urls, body \in Bodies :
    /\ Free(i)
    /\ LET p == [Idle EXCEPT !.kind = "push", !.op = "pushMessage",
                             !.body = body, !.wsUrl = url,
                             !.threw = (url = "")]
       IN Resume(i, [p EXCEPT !.pc = "done"],
                 IF url = "" THEN NoEffect ELSE PushEffect(p))
    /\ UNCHANGED <<now, ticks, sessions, tasks, redisUp, redisAvailable,
                   convs>>

\* a handler without the try/catch around pushMessage
CB_PushUncaught(i) ==
  /\ At(i, "callback", "cbPush")
  /\ \/ Resume(i, AfterPush(slots[i]), PushEffect(slots[i]))
     \/ Resume(i, Respond(slots[i], 500), NoEffect)
  /\ UNCHANGED <<now, ticks, sessions, tasks, redisUp, redisAvailable, convs>>

\* pushMessage resolves, or throws and the handler logs and goes on
CB_Push(i) ==
  /\ At(i, "callback", "cbPush")
  /\ \/ Resume(i, AfterPush(slots[i]), PushEffect(slots[i]))
     \/ Resume(i, AfterPush(slots[i]), NoEffect)
  /\ UNCHANGED <<now, ticks, sessions, tasks, redisUp, redisAvailable, convs>>

\* an update that creates the record it did not find
CB_UpdateGetUpsert(i) ==
  /\ At(i, "callback", "cbUpdateGet")
  /\ LET existing == IF redisUp THEN RedisGetTask(slots[i].body.requestId)
                     ELSE NoTask
     IN Resume(i, [slots[i] EXCEPT
                     !.existing = IF existing.taskId = ""
                                  THEN [NoTask EXCEPT
                                          !.taskId = slots[i].body.requestId]
                                  ELSE existing,
                     !.pc = "cbUpdateTtl"],
               NoEffect)
  /\ UNCHANGED <<now, ticks, sessions, tasks, redisUp, redisAvailable, convs>>

\* an update that leaves a task alone once it is completed
CB_UpdateGetOnce(i) ==
  /\ At(i, "callback", "cbUpdateGet")
  /\ LET existing == IF redisUp THEN RedisGetTask(slots[i].body.requestId)
                     ELSE NoTask
     IN Resume(i, IF existing.taskId = "" \/ ~existing.pending
                  THEN AfterMarkCompleted(slots[i])
                  ELSE [slots[i] EXCEPT !.existing = existing,
                                        !.pc = "cbUpdateTtl"],
               NoEffect)
  /\ UNCHANGED <<now, ticks, sessions, tasks, redisUp, redisAvailable, convs>>

\* updateTask, reply of its getTask: no record, no effect; otherwise TTL is
\* issued
CB_UpdateGet(i) ==
  /\ At(i, "callback", "cbUpdateGet")
  /\ LET existing == IF redisUp THEN RedisGetTask(slots[i].body.requestId)
                     ELSE NoTask
     IN Resume(i, IF existing.taskId = "" THEN AfterMarkCompleted(slots[i])
                  ELSE [slots[i] EXCEPT !.existing = existing,
                                        !.pc = "cbUpdateTtl"],
               NoEffect)
  /\ UNCHANGED <<now, ticks, sessions, tasks, redisUp, redisAvailable, convs>>

\* const expiration = ttl > 0 ? ttl : this.TTL
Expiration(ttl) == IF ttl > 0 THEN ttl ELSE TTL

\* a handler without the try/catch around markCompleted
CB_UpdateTtlUncaught(i) ==
  /\ At(i, "callback", "cbUpdateTtl")
  /\ Resume(i, IF redisUp
               THEN [slots[i] EXCEPT
                       !.expiration = Expiration(RedisTtlTask(
                                         slots[i].body.requestId)),
                       !.pc = "cbUpdateSetex"]
               ELSE Respond(slots[i], 500),
            NoEffect)
  /\ UNCHANGED <<now, ticks, sessions, tasks, redisUp, redisAvailable, convs>>

\* updateTask, reply of TTL: SETEX is issued; a failure is rethrown to the
\* handler, which logs it and goes on
CB_UpdateTtl(i) ==
  /\ At(i, "callback", "cbUpdateTtl")
  /\ Resume(i, IF redisUp
               THEN [slots[i] EXCEPT
                       !.expiration = Expiration(RedisTtlTask(
                                         slots[i].body.requestId)),
                       !.pc = "cbUpdateSetex"]
               ELSE AfterMarkCompleted(slots[i]),
            NoEffect)
  /\ UNCHANGED <<now, ticks, sessions, tasks, redisUp, redisAvailable, convs>>

\* an update that writes the updates alone, without spreading the record
MarkCompletedRecordAlone(existing, completedAt, result, error) ==
  [NoTask EXCEPT !.taskId = existing.taskId, !.completedAt = completedAt,
                 !.result = result, !.error = error]

\* an update that flags a second completion instead of applying it
MarkCompletedRecordFlagging(existing, completedAt, result, error) ==
  IF existing.pending
  THEN [existing EXCEPT !.pending = FALSE, !.completedAt = completedAt,
                        !.result = result, !.error = error]
  ELSE [existing EXCEPT !.error = "duplicate"]

\* an update that rebuilds the record and forgets where to push
MarkCompletedRecordNoAddress(existing, completedAt, result, error) ==
  [existing EXCEPT !.pending = FALSE, !.completedAt = completedAt,
                   !.result = result, !.error = error, !.wsUrl = "",
                   !.sessionPayload = ""]

\* a spread that passes over the updates that are undefined
MarkCompletedRecordSkippingUndefined(existing, completedAt, result, error) ==
  [existing EXCEPT !.pending = FALSE, !.completedAt = completedAt,
                   !.result = IF result # "" THEN result ELSE @,
                   !.error = IF error # "" THEN error ELSE @]

\* { ...existing, ...updates } with the updates of markCompleted
MarkCompletedRecord(existing, completedAt, result, error) ==
  [existing EXCEPT !.pending = FALSE, !.completedAt = completedAt,
                   !.result = result, !.error = error]

\* updateTask, reply of SETEX
CB_UpdateSetex(i) ==
  /\ At(i, "callback", "cbUpdateSetex")
  /\ IF redisUp
     THEN tasks' = RedisSetexTask(slots[i].body.requestId,
                      slots[i].expiration,
                      MarkCompletedRecord(slots[i].existing, slots[i].stamp,
                         ResultOf(slots[i].body), ErrorOf(slots[i].body)))
     ELSE UNCHANGED tasks
  /\ Resume(i, AfterMarkCompleted(slots[i]), NoEffect)
  /\ UNCHANGED <<now, ticks, sessions, redisUp, redisAvailable, convs>>

CB_SaveSession(i) ==
  /\ At(i, "callback", "cbSaveSession")
  /\ SetexSessionReply(slots[i], "webhook")
  /\ Resume(i, AfterCallbackSave(slots[i]), NoEffect)
  /\ UNCHANGED <<now, ticks, tasks, redisUp, convs>>

\* `Tool execution completed: <output>` or `Tool execution failed: <error>`
CallbackMessage(p) ==
  [NoEffect EXCEPT !.op = "addMessage",
                   !.conversationId = p.session.agentConversationId,
                   !.text = IF p.body.success
                            THEN <<"assistant", "Tool execution completed",
                                   IF p.body.output # "" THEN p.body.output
                                   ELSE "Success">>
                            ELSE <<"assistant", "Tool execution failed",
                                   IF p.body.error # "" THEN p.body.error
                                   ELSE "Unknown error">>]

CB_AddMessage(i) ==
  /\ At(i, "callback", "cbAddMessage")
  /\ \/ Resume(i, CallbackDone(slots[i]), CallbackMessage(slots[i]))
     \/ Resume(i, CallbackDone(slots[i]), NoEffect)
  /\ UNCHANGED <<now, ticks, sessions, tasks, redisUp, redisAvailable, convs>>

CallbackStep(i, Bodies) ==
  \/ ReceiveCallback(i, Bodies)
  \/ CB_GetTask(i)
  \/ CB_FindSession(i)
  \/ CB_Push(i)
  \/ CB_UpdateGet(i)
  \/ CB_UpdateTtl(i)
  \/ CB_UpdateSetex(i)
  \/ CB_SaveSession(i)
  \/ CB_AddMessage(i)

(* ------------------- SessionService, called directly ------------------ *)
\* the sessions a caller passes to createOrUpdateSession
StoreAgentIds == {"a1", "a2"}

StoreSessions ==
  { [NoSession EXCEPT !.sessionId = s, !.agentId = a, !.conversationId = "c1",
                      !.createdAt = 1, !.lastAccessedAt = 1, !.wsUrl = "w1"] :
      s \in SessionIds, a \in StoreAgentIds }

\* the method returns to its caller
Return(p) == [p EXCEPT !.pc = "done"]

\* KEYS elevenlabs:session:* : the live keys, in an order Redis chooses
KeyOrders ==
  LET live == {s \in SessionIds : sessions[s].exp > now}
  IN { q \in [1..Cardinality(live) -> live] :
         \A m, n \in 1..Cardinality(live) : q[m] = q[n] => m = n }

\* a method of the webhook routes' SessionService is called: the flag is
\* read, and when it is up the first Redis command is issued
StoreCall(i, Ss, Ids, As) ==
  /\ Free(i)
  /\ LET p == [Idle EXCEPT !.kind = "store"]
     IN \/ \E session \in Ss :
             LET q == [p EXCEPT !.op = "createOrUpdateSession",
                                !.session = session]
             IN Resume(i, CallCreateOrUpdateSession(q, "webhook", "stSetex",
                                                    Return(q)),
                       NoEffect)
        \/ \E id \in Ids, op \in {"getSession", "deleteSession"} :
             LET q == [p EXCEPT !.op = op, !.body.session_id = id]
             IN Resume(i, IF redisAvailable["webhook"]
                          THEN [q EXCEPT !.pc = IF op = "getSession"
                                                THEN "stGet" ELSE "stDel"]
                          ELSE Return(q),
                       NoEffect)
        \/ \E a \in As :
             LET q == [p EXCEPT !.op = "listAgentSessions",
                                !.body.agent_id = a]
             IN Resume(i, IF redisAvailable["webhook"]
                          THEN [q EXCEPT !.pc = "stKeys"]
                          ELSE Return(q),
                       NoEffect)
  /\ UNCHANGED <<now, ticks, sessions, tasks, redisUp, redisAvailable, convs>>

\* reply of SETEX in createOrUpdateSession
ST_Setex(i) ==
  /\ At(i, "store", "stSetex")
  /\ SetexSessionReply(slots[i], "webhook")
  /\ Resume(i, Return(slots[i]), NoEffect)
  /\ UNCHANGED <<now, ticks, tasks, redisUp, convs>>

\* a getSession whose storage error reaches the caller
ST_GetUncaught(i) ==
  /\ At(i, "store", "stGet")
  /\ Resume(i, Return([slots[i] EXCEPT
                         !.session = IF redisUp
                                     THEN RedisGetSession(slots[i].body.session_id)
                                     ELSE NoSession,
                         !.threw = ~redisUp]),
            NoEffect)
  /\ UNCHANGED <<now, ticks, sessions, tasks, redisUp, redisAvailable, convs>>

\* reply of GET in getSession: the parsed value, or null when there is none
\* or the command failed
ST_Get(i) ==
  /\ At(i, "store", "stGet")
  /\ Resume(i, Return([slots[i] EXCEPT
                         !.session = IF redisUp
                                     THEN RedisGetSession(slots[i].body.session_id)
                                     ELSE NoSession]),
            NoEffect)
  /\ UNCHANGED <<now, ticks, sessions, tasks, redisUp, redisAvailable, convs>>

\* reply of DEL in deleteSession: a failure is logged and nothing else
ST_Del(i) ==
  /\ At(i, "store", "stDel")
  /\ sessions' = IF redisUp
                 THEN [sessions EXCEPT ![slots[i].body.session_id] = AbsentSession]
                 ELSE sessions
  /\ Resume(i, Return(slots[i]), NoEffect)
  /\ UNCHANGED <<now, ticks, tasks, redisUp, redisAvailable, convs>>

\* reply of KEYS in listAgentSessions: the loop starts, or [] on a failure
ST_Keys(i) ==
  /\ At(i, "store", "stKeys")
  /\ IF redisUp
     THEN \E q \in KeyOrders :
            Resume(i, IF q = <<>> THEN Return(slots[i])
                      ELSE [slots[i] EXCEPT !.keys = q, !.pc = "stListGet"],
                   NoEffect)
     ELSE Resume(i, Return(slots[i]), NoEffect)
  /\ UNCHANGED <<now, ticks, sessions, tasks, redisUp, redisAvailable, convs>>

\* reply of one GET of the loop: a session of the agent is pushed; a failure
\* abandons the list and returns []
ST_ListGet(i) ==
  /\ At(i, "store", "stListGet")
  /\ LET p == slots[i]
         value == RedisGetSession(Head(p.keys))
         q == [p EXCEPT !.keys = Tail(p.keys),
                        !.listed = IF value # NoSession
                                      /\ value.agentId = p.body.agent_id
                                   THEN Append(p.listed, value)
                                   ELSE p.listed]
     IN Resume(i, IF ~redisUp THEN Return([p EXCEPT !.listed = <<>>])
                  ELSE IF q.keys = <<>> THEN Return(q)
                  ELSE q,
               NoEffect)
  /\ UNCHANGED <<now, ticks, sessions, tasks, redisUp, redisAvailable, convs>>

\* findSessionByConversationId is called: the flag is read, and when it is
\* up KEYS is issued (the scan of listAgentSessions)
StoreFindCall(i, Cs) ==
  /\ Free(i)
  /\ \E c \in Cs :
       LET q == [Idle EXCEPT !.kind = "store",
                             !.op = "findSessionByConversationId",
                             !.body.conversation_id = c]
       IN Resume(i, IF redisAvailable["webhook"]
                    THEN [q EXCEPT !.pc = "stFindKeys"]
                    ELSE Return(q),
                 NoEffect)
  /\ UNCHANGED <<now, ticks, sessions, tasks, redisUp, redisAvailable, convs>>

\* reply of KEYS: the scan starts, or the answer is absent
ST_FindKeys(i) ==
  /\ At(i, "store", "stFindKeys")
  /\ IF redisUp
     THEN \E q \in KeyOrders :
            Resume(i, IF q = <<>> THEN Return(slots[i])
                      ELSE [slots[i] EXCEPT !.keys = q, !.pc = "stFindGet"],
                   NoEffect)
     ELSE Resume(i, Return(slots[i]), NoEffect)
  /\ UNCHANGED <<now, ticks, sessions, tasks, redisUp, redisAvailable, convs>>

\* a scan that returns the last session of the conversation, not the first
ST_FindGetLast(i) ==
  /\ At(i, "store", "stFindGet")
  /\ LET p == slots[i]
         value == RedisGetSession(Head(p.keys))
         q == [p EXCEPT !.keys = Tail(p.keys),
                        !.session = IF value.conversationId =
                                         p.body.conversation_id
                                    THEN value ELSE p.session]
     IN Resume(i, IF ~redisUp THEN Return([p EXCEPT !.session = NoSession])
                  ELSE IF q.keys = <<>> THEN Return(q)
                  ELSE q,
               NoEffect)
  /\ UNCHANGED <<now, ticks, sessions, tasks, redisUp, redisAvailable, convs>>

\* reply of one GET of the scan: the first session of the conversation is
\* returned; a failure, or the end of the keys, answers absent
ST_FindGet(i) ==
  /\ At(i, "store", "stFindGet")
  /\ LET p == slots[i]
         value == RedisGetSession(Head(p.keys))
     IN Resume(i, IF ~redisUp THEN Return(p)
                  ELSE IF value # NoSession
                          /\ value.conversationId = p.body.conversation_id
                       THEN Return([p EXCEPT !.session = value])
                  ELSE IF Tail(p.keys) = <<>> THEN Return(p)
                  ELSE [p EXCEPT !.keys = Tail(p.keys)],
               NoEffect)
  /\ UNCHANGED <<now, ticks, sessions, tasks, redisUp, redisAvailable, convs>>

FindStep(i, Cs) == StoreFindCall(i, Cs) \/ ST_FindKeys(i) \/ ST_FindGet(i)

StoreStep(i, Ss, Ids, As) ==
  \/ StoreCall(i, Ss, Ids, As)
  \/ ST_Setex(i) \/ ST_Get(i) \/ ST_Del(i) \/ ST_Keys(i) \/ ST_ListGet(i)

(* --------------------------- specifications --------------------------- *)
\* the slot used when handlers run one at a time
Solo == {1}

\* Handlers one at a time over a Redis that connects and then stays up.
Next ==
  \/ OnConnect
  \/ \E i \in Solo :
       \/ ToolCallStep(i, ToolBodies, RequestIds)
       \/ RegisterStep(i, RegisterBodies)
       \/ CallbackStep(i, CallbackBodies)

Spec == Init /\ [][Next]_vars

\* The same over a Redis whose connection comes and goes.
FaultToolBodies ==
  { ToolBody("a1", "s1", "t2", "x", "c1"), ToolBody("a1", "s1", "", "", "c1") }

FaultRegisterBodies == { RegisterBody("w1", "s1", "c1") }

FaultCallbackBodies ==
  { CallbackBody("r1", c, ok, IF ok THEN "out" ELSE "",
                 IF ok THEN "" ELSE "err") :
      c \in {"", "c1"}, ok \in BOOLEAN }
  \cup { CallbackBody("", "c1", TRUE, "out", "") }

NextFaults ==
  \/ OnConnect \/ ConnectionLost \/ OnError
  \/ \E i \in Solo :
       \/ ToolCallStep(i, FaultToolBodies, {"r1"})
       \/ RegisterStep(i, FaultRegisterBodies)
       \/ CallbackStep(i, FaultCallbackBodies)

SpecFaults == Init /\ [][NextFaults]_vars

\* The same over a reliable Redis while time passes.
NextTimed ==
  \/ OnConnect \/ Tick(Deltas)
  \/ \E i \in Solo :
       \/ ToolCallStep(i, FaultToolBodies, {"r1"})
       \/ RegisterStep(i, FaultRegisterBodies)
       \/ CallbackStep(i, FaultCallbackBodies)

SpecTimed == Init /\ [][NextTimed]_vars
\* Completions racing: sessions are registered and tool calls made one at a
\* time; then callbacks of different request ids are in flight together and
\* their steps interleave freely, while time passes.
RaceToolBodies ==
  { ToolBody("a1", "s1", "t1", "", ""), ToolBody("a1", "s1", "t2", "x", "c1") }

RaceCallbackBodies ==
  { CallbackBody("r1", "", TRUE, "out", ""),
    CallbackBody("r2", "", FALSE, "", "err") }

RaceDeltas == {1, TTL}

\* no handler but i is in flight
Alone(i) == \A j \in Slots \ {i} : slots[j].kind = "idle"

\* the callbacks handler i may receive: none while a tool call or a
\* registration is in flight, and none for a request id whose callback is
\* in flight
RaceCallbacks(i) ==
  { b \in RaceCallbackBodies :
      \A j \in Slots \ {i} :
        \/ slots[j].kind = "idle"
        \/ slots[j].kind = "callback" /\ slots[j].body.requestId # b.requestId }

NextRace ==
  \/ OnConnect \/ Tick(RaceDeltas)
  \/ \E i \in Slots :
       \/ Alone(i) /\ ToolCallStep(i, RaceToolBodies, RequestIds)
       \/ Alone(i) /\ RegisterStep(i, FaultRegisterBodies)
       \/ CallbackStep(i, RaceCallbacks(i))

SpecRace == Init /\ [][NextRace]_vars

\* Address resolution: a session registers one address and later another, so
\* that a task and its session can hold different ones.
AddressRegisterBodies ==
  { RegisterBody(url, "s1", "c1") : url \in {"w1", "w2"} }

AddressToolBodies == { ToolBody("a1", "s1", "t2", "x", "c1") }

AddressCallbackBodies ==
  { CallbackBody("r1", c, TRUE, "out", "") : c \in {"", "c1"} }

NextAddress ==
  \/ OnConnect
  \/ \E i \in Solo :
       \/ ToolCallStep(i, AddressToolBodies, {"r1"})
       \/ RegisterStep(i, AddressRegisterBodies)
       \/ CallbackStep(i, AddressCallbackBodies)

SpecAddress == Init /\ [][NextAddress]_vars

\* The methods of SessionService called one at a time, over a Redis whose
\* connection comes and goes while time passes.
StoreDeltas == {1, SESSION_TTL}

NextStore ==
  \/ OnConnect \/ ConnectionLost \/ OnError \/ Tick(StoreDeltas)
  \/ \E i \in Solo : StoreStep(i, StoreSessions, SessionIds, StoreAgentIds)

SpecStore == Init /\ [][NextStore]_vars

\* The Task Registry under one tool call at a time, over a Redis whose
\* connection comes and goes while time passes.
RegistryToolBodies == { ToolBody("a1", "s1", "t2", "x", "c1") }

RegistryCallbackBodies == { CallbackBody("r1", "c1", TRUE, "out", "") }

\* the clock moves by seconds between the read of the time and the write
RegistryDeltas == {1}

NextRegistry ==
  \/ OnConnect \/ ConnectionLost \/ Tick(RegistryDeltas)
  \/ \E i \in Solo :
       \/ ToolCallStep(i, RegistryToolBodies, {"r1"})
       \/ RegisterStep(i, FaultRegisterBodies)
       \/ CallbackStep(i, RegistryCallbackBodies)

SpecRegistry == Init /\ [][NextRegistry]_vars

\* Registrations, with and without sessionUrl and sessionId, followed by
\* tool calls on the registered session ids.
RegistrationBodies ==
  { RegisterBody("w1", "s1", "c1"), RegisterBody("w2", "s1", "c1"),
    RegisterBody("", "s1", "c1"), RegisterBody("w1", "", "c1") }

RegistrationToolBodies ==
  { ToolBody("a1", "s1", "t2", "x", ""), ToolBody("a1", "s2", "t1", "", "") }

NextRegistration ==
  \/ OnConnect
  \/ \E i \in Solo :
       \/ RegisterStep(i, RegistrationBodies)
       \/ ToolCallStep(i, RegistrationToolBodies, RequestIds)

SpecRegistration == Init /\ [][NextRegistration]_vars

\* Sessions of two conversations are written and looked up by conversation
\* id, over a Redis whose connection comes and goes while time passes.
FindConvIds == {"c1", "c2"}

FindSessions ==
  { [NoSession EXCEPT !.sessionId = s, !.agentId = "a1", !.conversationId = c,
                      !.createdAt = 1, !.lastAccessedAt = 1] :
      s \in SessionIds, c \in FindConvIds }

NextFind ==
  \/ OnConnect \/ ConnectionLost \/ OnError \/ Tick(StoreDeltas)
  \/ \E i \in Solo :
       \/ StoreCall(i, FindSessions, {}, {})
       \/ ST_Setex(i)
       \/ FindStep(i, FindConvIds)

SpecFind == Init /\ [][NextFind]_vars

\* Completions of every shape (with and without output, with and without
\* error text) pushed by the callback handler and by pushMessage directly.
PushCallbackBodies ==
  { CallbackBody("r1", "c1", ok, o, e) :
      ok \in BOOLEAN, o \in {"", "out"}, e \in {"", "err"} }

PushUrls == {"", "w1"}

NextPush ==
  \/ OnConnect
  \/ \E i \in Solo :
       \/ RegisterStep(i, FaultRegisterBodies)
       \/ ToolCallStep(i, RegistryToolBodies, {"r1"})
       \/ CallbackStep(i, PushCallbackBodies)
       \/ PushDirect(i, PushUrls, PushCallbackBodies)

SpecPush == Init /\ [][NextPush]_vars

\* Requests of every gated route, under every spelling of the feature flag,
\* with and without an API key.
GateFlags == {Unset, "", "false", "true", "True", "TRUE", "tRuE", "1"}

GateApiKeys == {"", "key"}

GateAgentIds == {"", "a1"}

InitGate == Start(GateFlags, GateApiKeys)

NextGate ==
  \/ OnConnect
  \/ \E i \in Solo :
       \/ SignedUrlStep(i, GateAgentIds)
       \/ RegisterStep(i, FaultRegisterBodies)
       \/ ToolCallStep(i, RegistryToolBodies, {"r1"})
       \/ CallbackStep(i, FaultCallbackBodies)

SpecGate == InitGate /\ [][NextGate]_vars

\* Requests for one session in flight together: the session is registered,
\* then tool calls and callbacks of session s1 and conversation c1 run two at
\* a time, their steps interleaving freely over a reliable Redis.
Pair == {1, 2}

SharedToolBodies == { ToolBody("a1", "s1", "t2", "x", "c1") }

SharedCallbackBodies == { CallbackBody("r1", "c1", TRUE, "out", "") }

NextShared ==
  \/ OnConnect
  \/ \E i \in Pair :
       \/ ToolCallStep(i, SharedToolBodies, {"r1"})
       \/ Alone(i) /\ RegisterStep(i, FaultRegisterBodies)
       \/ CallbackStep(i, SharedCallbackBodies)

SpecShared == Init /\ [][NextShared]_vars

\* One execution handed over: the session is registered with an address, one
\* tool call for it is submitted (the backend names request r1 once, and no
\* second tool call is taken once r1 is outstanding), and the backend sends
\* the callback of r1 at any moment after it accepted the request: before or
\* after createTask has stored the task.
Outstanding(r) ==
  \/ \E j \in Pair : At(j, "tool", "createTask") /\ slots[j].requestId = r
  \/ tasks[r].exp > now /\ tasks[r].val.pending

HandoffToolBodies ==
  IF tasks["r1"] = AbsentTask /\ \A j \in Pair : slots[j].kind # "tool"
  THEN SharedToolBodies ELSE {}

HandoffCallbacks(i) ==
  { b \in SharedCallbackBodies :
      /\ Outstanding(b.requestId)
      /\ \A j \in Pair \ {i} : slots[j].kind # "callback" }

NextHandoff ==
  \/ OnConnect
  \/ \E i \in Pair :
       \/ Alone(i) /\ RegisterStep(i, FaultRegisterBodies)
       \/ ToolCallStep(i, HandoffToolBodies, {"r1"})
       \/ CallbackStep(i, HandoffCallbacks(i))

SpecHandoff == Init /\ [][NextHandoff]_vars

\* Two sessions of one conversation: the conversation registers an address
\* without naming a session id (the route generates one) and may register
\* another for session s1, the agent's tool call names session s1 of the
\* same conversation, and the callback of the request arrives with the
\* conversation id.
OriginRegisterBodies ==
  { RegisterBody("w1", "", "c1"), RegisterBody("w2", "s1", "c1") }

NextOrigin ==
  \/ OnConnect
  \/ \E i \in Solo :
       \/ RegisterStep(i, OriginRegisterBodies)
       \/ ToolCallStep(i, SharedToolBodies, {"r1"})
       \/ CallbackStep(i, SharedCallbackBodies)

SpecOrigin == Init /\ [][NextOrigin]_vars

\* Re-registration racing: session s1 registers an address and later
\* another, while one tool call or one callback of that session is in
\* flight; the steps of the two handlers interleave freely.
NoRequestBut(i) ==
  \A j \in Pair \ {i} : slots[j].kind \notin {"tool", "callback"}

ReRegisterToolBodies(i) == IF NoRequestBut(i) THEN SharedToolBodies ELSE {}

ReRegisterCallbackBodies(i) ==
  IF NoRequestBut(i) THEN SharedCallbackBodies ELSE {}

NextReRegister ==
  \/ OnConnect
  \/ \E i \in Pair :
       \/ RegisterStep(i, AddressRegisterBodies)
       \/ ToolCallStep(i, ReRegisterToolBodies(i), {"r1"})
       \/ CallbackStep(i, ReRegisterCallbackBodies(i))

SpecReRegister == Init /\ [][NextReRegister]_vars

(* ------------------------------ properties ---------------------------- *)
MissingField(b) == b.agent_id = "" \/ b.session_id = "" \/ b.tool_name = ""

\* C7: a tool call lacking agent_id, session_id or tool_name is answered by
\* the step that receives it, with 400 when the feature gate is open (the
\* gate, outside the specified behaviour, answers 503 for every request when
\* closed); that step leaves the sessions, the tasks, the conversations and
\* the liveness flags as they were and makes no outbound call; no such
\* request is ever in flight past validation.
C7_InvalidToolCallRejected ==
  [][ /\ \A i \in Slots :
           slots'[i].kind = "tool" => ~MissingField(slots'[i].body)
      /\ (response'.kind = "tool" /\ MissingField(response'.body)) =>
           /\ response'.status = IF isElevenLabsEnabled THEN 400 ELSE 503
           /\ effect' = NoEffect
           /\ UNCHANGED <<sessions, tasks, convs, redisAvailable>> ]_vars

\* a request without tool_name was refused while a session was stored
C7_Witness ==
  /\ response.kind = "tool"
  /\ response.body.tool_name = ""
  /\ response.status = 400
  /\ sessions["s1"].val.sessionId = "s1"

\* C8: the step in which executeAsync fails answers 500, registers no task
\* and ends the handler, so nothing is submitted again; a handler leaves
\* executeAsync in one step and submits only there; and a valid tool call is
\* answered 500 only by that step, whatever else failed before it: its other
\* answers are 200, 401 for a secret that does not match, and 503 when the
\* feature gate is closed.
C8_OnlySubmissionFailureSurfaces ==
  [][ /\ \A i \in Slots :
           At(i, "tool", "executeAsync") /\ slots'[i] # slots[i] =>
             /\ slots'[i].pc # "executeAsync"
             /\ effect'.op # "executeAsync" =>
                  /\ response'.kind = "tool" /\ response'.status = 500
                  /\ slots'[i] = Idle
                  /\ UNCHANGED tasks
             /\ effect'.op = "executeAsync" =>
                  ~(response'.kind = "tool" /\ response'.status # 200)
      /\ effect'.op = "executeAsync" =>
           \E i \in Slots : At(i, "tool", "executeAsync")
      /\ (response'.kind = "tool" /\ ~MissingField(response'.body)) =>
           /\ response'.status \in {200, 401, 500, 503}
           /\ response'.status = 503 => ~isElevenLabsEnabled
           /\ response'.status = 401 =>
                /\ env.webhookSecret # ""
                /\ response'.body.secret \notin {"", env.webhookSecret}
           /\ response'.status = 500 =>
                /\ effect'.op # "executeAsync"
                /\ \E i \in Slots : At(i, "tool", "executeAsync") ]_vars

\* a submission failed after the session write had failed as well
C8_Witness ==
  /\ response.kind = "tool"
  /\ response.status = 500
  /\ response.requestId = ""
  /\ ~redisUp
  /\ tasks["r1"] = AbsentTask

\* C5: with the feature gate open, a callback that carries a requestId is
\* answered 200, whether or not its task or session was found, the push was
\* delivered, markCompleted or the message append succeeded, or Redis was
\* reachable.
C5_CallbackAlwaysAnswered ==
  (response.kind = "callback" /\ response.body.requestId # "" /\ isElevenLabsEnabled)
    => response.status = 200

\* a callback whose task was found, whose markCompleted failed with the
\* connection lost, and that was answered all the same
C5_Witness ==
  /\ response.kind = "callback"
  /\ response.status = 200
  /\ response.callbackTask.taskId = "r1"
  /\ ~redisUp
  /\ tasks["r1"].val.pending

\* C6: a push is made only by a callback that resolved an address from its
\* task or its session; with the feature gate open a callback that resolved
\* none is answered 200; and with a task on hand and no address the handler
\* goes on to markCompleted.
C6_NoAddressNoPush ==
  [][ /\ effect'.op = "pushMessage" =>
           \E i \in Slots :
             /\ At(i, "callback", "cbPush")
             /\ effect'.wsUrl # ""
             /\ effect'.wsUrl \in {slots[i].callbackTask.wsUrl,
                                   slots[i].session.wsUrl}
      /\ \A i \in Slots :
           slots'[i].pc = "cbPush" =>
             (slots'[i].callbackTask.wsUrl # "" \/ slots'[i].session.wsUrl # "")
      /\ (/\ response'.kind = "callback"
          /\ isElevenLabsEnabled
          /\ response'.body.requestId # ""
          /\ response'.callbackTask.wsUrl = ""
          /\ response'.session.wsUrl = "") => response'.status = 200
      /\ \A b \in CallbackBodies :
           b.requestId # "" =>
             AfterFindSession(
               [Idle EXCEPT !.kind = "callback", !.body = b,
                            !.callbackTask =
                               [NoTask EXCEPT !.taskId = b.requestId,
                                              !.pending = TRUE]],
               NoSession).pc = "cbUpdateGet" ]_vars

\* a callback found a session that has no address, pushed nothing and was
\* answered
C6_Witness ==
  /\ response.kind = "callback"
  /\ response.status = 200
  /\ response.session.sessionId = "s1"
  /\ response.session.wsUrl = ""
  /\ response.callbackTask = NoTask
  /\ effect.op # "pushMessage"
\* C1: a step of a callback handler changes no task record but the one of
\* its own request id; and a callback that found its task leaves that record,
\* when it answers, with pending = false, the result or error of that very
\* callback, and the conversationId, toolName, toolArgs and wsUrl it read.
C1_CallbacksIndependent ==
  [][ \A i \in Slots :
        (slots[i].kind = "callback" /\ slots'[i] # slots[i]) =>
          /\ \A r \in RequestIds :
               r # slots[i].body.requestId => tasks'[r] = tasks[r]
          /\ (response'.kind = "callback"
              /\ response'.callbackTask.taskId # "") =>
               LET b == response'.body
                   was == response'.callbackTask
                   t == tasks'[b.requestId].val
               IN /\ t.taskId = b.requestId
                  /\ t.pending = FALSE
                  /\ t.result = (IF b.success THEN b.output ELSE "")
                  /\ t.error = (IF b.success THEN "" ELSE b.error)
                  /\ t.conversationId = was.conversationId
                  /\ t.toolName = was.toolName
                  /\ t.toolArgs = was.toolArgs
                  /\ t.wsUrl = was.wsUrl ]_vars

\* r1 is completed by its callback after r2 was; both belong to one
\* conversation, each keeps its own tool name and outcome
C1_Witness ==
  /\ response.kind = "callback"
  /\ response.body.requestId = "r1"
  /\ response.callbackTask.pending
  /\ tasks["r1"].val.pending = FALSE
  /\ tasks["r1"].val.result = "out"
  /\ tasks["r1"].val.toolName = "t1"
  /\ tasks["r2"].val.taskId = "r2"
  /\ tasks["r2"].val.pending = FALSE
  /\ tasks["r2"].val.error = "err"
  /\ tasks["r2"].val.toolName = "t2"
  /\ tasks["r1"].val.conversationId = "c1"
  /\ tasks["r2"].val.conversationId = "c1"

\* seconds a stored task has left
Remaining(r) == IF tasks[r].exp > now THEN tasks[r].exp - now ELSE 0

\* C2: the write of updateTask leaves the record with no more time to live
\* than it had just before the write, so that the expiry createTask set,
\* 86400 s after creation, is never moved later.
C2_TtlNeverGrows ==
  [][ \A i \in Slots :
        (At(i, "callback", "cbUpdateSetex") /\ tasks' # tasks) =>
          LET r == slots[i].body.requestId
          IN /\ tasks'[r].exp - now <= Remaining(r)
             /\ tasks'[r].exp - now <= TTL ]_vars

\* C3: no step takes a stored task record from pending = false back to
\* pending = true.
C3_NeverPendingAgain ==
  [][ \A r \in RequestIds :
        (tasks[r].exp > now /\ ~tasks[r].val.pending) =>
          ~(tasks'[r].exp > now' /\ tasks'[r].val.pending) ]_vars

\* C4 as stated: when a tool call is answered with success and Redis is up,
\* a pending task for the returned request id is stored.
C4_TaskAlwaysRegistered ==
  (response.kind = "tool" /\ response.status = 200 /\ redisUp) =>
    /\ tasks[response.requestId].val.taskId = response.requestId
    /\ tasks[response.requestId].val.pending

\* C4, amended: when executeAsync succeeds for a session with a known wsUrl
\* the handler goes on to createTask before answering, and if Redis accepts
\* that write the task of the returned request id is pending and carries the
\* tool name, the arguments and that wsUrl when success is answered; when
\* the session has no wsUrl, success is answered and no task is written.
C4_TaskRegisteredWhenAddressKnown ==
  [][ \A i \in Slots :
        /\ (At(i, "tool", "executeAsync") /\ effect'.op = "executeAsync") =>
             IF slots[i].session.wsUrl # ""
             THEN /\ slots'[i].pc = "createTask"
                  /\ slots'[i].requestId # ""
                  /\ response' = Idle
             ELSE /\ response'.kind = "tool" /\ response'.status = 200
                  /\ UNCHANGED tasks
        /\ (At(i, "tool", "createTask") /\ slots'[i] # slots[i]) =>
             /\ response'.kind = "tool" /\ response'.status = 200
             /\ response'.requestId = slots[i].requestId
             /\ ~redisUp => UNCHANGED tasks
             /\ redisUp =>
                  LET t == tasks'[slots[i].requestId].val
                  IN /\ t.taskId = slots[i].requestId
                     /\ t.pending
                     /\ t.toolName = slots[i].body.tool_name
                     /\ t.toolArgs = slots[i].body.tool_args
                     /\ t.wsUrl = slots[i].session.wsUrl
                     /\ t.wsUrl # "" ]_vars

\* a tool call of a session with a registered address was answered and its
\* task is stored
C4_Witness ==
  /\ response.kind = "tool"
  /\ response.status = 200
  /\ response.requestId = "r1"
  /\ tasks["r1"].val.pending
  /\ tasks["r1"].val.toolName = "t2"
  /\ tasks["r1"].val.toolArgs = "x"
  /\ tasks["r1"].val.wsUrl = "w1"

\* C9: when createConversation fails for a session id that has no stored
\* session, with the session store available, the handler goes on (it does
\* not answer yet), holds a new session for that id without conversation id
\* and writes it; executeAsync follows.
C9_SessionPersistedWithoutConversation ==
  [][ \A i \in Slots :
        (/\ At(i, "tool", "createConversation")
         /\ slots'[i] # slots[i]
         /\ effect'.op # "createConversation"
         /\ redisUp /\ redisAvailable["webhook"]) =>
          /\ slots'[i].pc = "saveNew"
          /\ slots'[i].session.sessionId = slots[i].body.session_id
          /\ slots'[i].session.agentConversationId = "" ]_vars

\* C10: a valid tool call that found no stored session, with the session
\* store available, goes on from createConversation to write a session for
\* its id; that write changes the record of that id only and stores
\* createdAt equal to lastAccessedAt.
C10_OneSessionPerNewId ==
  [][ \A i \in Slots :
        /\ (/\ At(i, "tool", "createConversation")
            /\ slots'[i] # slots[i]
            /\ redisUp /\ redisAvailable["webhook"]) =>
             /\ slots'[i].pc = "saveNew"
             /\ slots'[i].session.sessionId = slots[i].body.session_id
        /\ (At(i, "tool", "saveNew") /\ slots'[i] # slots[i] /\ redisUp) =>
             LET id == slots[i].body.session_id
             IN /\ sessions'[id].val.sessionId = id
                /\ sessions'[id].val.createdAt
                     = sessions'[id].val.lastAccessedAt
                /\ \A s \in SessionIds \ {id} : sessions'[s] = sessions[s]
      ]_vars
\* C11 as stated: the session write of a tool call that found its session
\* stores a lastAccessedAt strictly greater than the stored one and the same
\* createdAt.
C11_LastAccessedStrictlyIncreases ==
  [][ \A i \in Slots :
        (At(i, "tool", "saveExisting") /\ slots'[i] # slots[i] /\ redisUp
         /\ sessions[slots[i].body.session_id].exp > now) =>
          LET id == slots[i].body.session_id
          IN /\ sessions'[id].val.lastAccessedAt
                  > sessions[id].val.lastAccessedAt
             /\ sessions'[id].val.createdAt = sessions[id].val.createdAt
      ]_vars

\* C11, amended: when Redis accepts the session write of a tool call that
\* found its session, the stored lastAccessedAt is the time at which
\* createOrUpdateSession was called, which is not less than the stored one
\* (and greater exactly when the clock has advanced past it), and createdAt
\* is the one that was read, equal to the stored one.
C11_LastAccessedRefreshed ==
  [][ \A i \in Slots :
        (At(i, "tool", "saveExisting") /\ slots'[i] # slots[i] /\ redisUp) =>
          LET id == slots[i].body.session_id
          IN /\ sessions'[id].val.sessionId = id
             /\ sessions'[id].val.lastAccessedAt = slots[i].stamp
             /\ slots[i].stamp <= now
             /\ sessions'[id].val.createdAt = slots[i].session.createdAt
             /\ sessions'[id].val.createdAt <= sessions'[id].val.lastAccessedAt
             /\ sessions[id].exp > now =>
                  /\ sessions'[id].val.lastAccessedAt
                       >= sessions[id].val.lastAccessedAt
                  /\ sessions'[id].val.createdAt = sessions[id].val.createdAt
      ]_vars

\* a tool call found its session after time had passed and was answered: the
\* stored record keeps its createdAt and has a later lastAccessedAt
C11_Witness ==
  /\ response.kind = "tool"
  /\ response.status = 200
  /\ response.session.sessionId = "s1"
  /\ sessions["s1"].val.sessionId = "s1"
  /\ sessions["s1"].val.createdAt = 1
  /\ sessions["s1"].val.lastAccessedAt > 1
\* what a callback passes to markCompleted as result and as error
OwnResult(b) == IF b.success THEN b.output ELSE ""
OwnError(b) == IF b.success THEN "" ELSE b.error

\* the write of updateTask by handler i hits a stored record that an earlier
\* markCompleted with the same result and error has completed
SecondMarkCompleted(i) ==
  LET r == slots[i].body.requestId
  IN /\ At(i, "callback", "cbUpdateSetex")
     /\ redisUp
     /\ tasks[r].exp > now
     /\ ~tasks[r].val.pending
     /\ tasks[r].val.result = OwnResult(slots[i].body)
     /\ tasks[r].val.error = OwnError(slots[i].body)

\* C12 as stated: a second markCompleted with the same result and error
\* leaves the record as the first one left it.
C12_MarkCompletedIdempotent ==
  [][ \A i \in Slots :
        (SecondMarkCompleted(i) /\ slots'[i] # slots[i]) =>
          tasks'[slots[i].body.requestId].val
            = tasks[slots[i].body.requestId].val ]_vars

\* C12, amended: a second markCompleted with the same result and error
\* leaves the record as the first one left it except for completedAt, which
\* becomes the time of the second call (not earlier than the first).
C12_MarkCompletedReapplied ==
  [][ \A i \in Slots :
        (SecondMarkCompleted(i) /\ slots'[i] # slots[i]) =>
          LET r == slots[i].body.requestId
          IN /\ tasks'[r].val
                  = [tasks[r].val EXCEPT !.completedAt = slots[i].stamp]
             /\ slots[i].stamp >= tasks[r].val.completedAt
             /\ \A q \in RequestIds \ {r} : tasks'[q] = tasks[q] ]_vars

\* the same successful callback was applied twice, the second time later
C12_Witness ==
  /\ response.kind = "callback"
  /\ response.body.success
  /\ response.callbackTask.taskId = "r1"
  /\ ~response.callbackTask.pending
  /\ response.callbackTask.result = "out"
  /\ tasks["r1"].val.result = "out"
  /\ tasks["r1"].val.completedAt > response.callbackTask.completedAt

\* C13: a callback that finds its task already completed is answered 200;
\* no step of a callback handler makes a completed task pending; and when
\* the callback answers, the record is completed and holds the result and
\* error of this callback, not of the earlier one.
C13_DuplicateCallbackReapplied ==
  [][ \A i \in Slots :
        (slots[i].kind = "callback" /\ slots'[i] # slots[i]) =>
          /\ \A r \in RequestIds :
               (tasks[r].val.taskId # "" /\ ~tasks[r].val.pending) =>
                 (tasks'[r].val.taskId # "" /\ ~tasks'[r].val.pending)
          /\ (/\ response'.kind = "callback"
              /\ response'.callbackTask.taskId # ""
              /\ ~response'.callbackTask.pending) =>
               LET r == response'.body.requestId
               IN /\ response'.status = 200
                  /\ ~tasks'[r].val.pending
                  /\ tasks'[r].val.result = OwnResult(response'.body)
                  /\ tasks'[r].val.error = OwnError(response'.body) ]_vars

\* a failure callback arrived for a task that a success callback had
\* completed: the record now holds the error and no result
C13_Witness ==
  /\ response.kind = "callback"
  /\ response.status = 200
  /\ ~response.body.success
  /\ response.callbackTask.taskId = "r1"
  /\ ~response.callbackTask.pending
  /\ response.callbackTask.result = "out"
  /\ tasks["r1"].val.result = ""
  /\ tasks["r1"].val.error = "err"
  /\ ~tasks["r1"].val.pending
\* C14: of callbacks for different request ids in flight together, every
\* step changes no task record (value or expiry) but the one of its own
\* request id; and the write of updateTask finds the record as its own
\* getTask read it and leaves it as that record with pending = false and the
\* completedAt, result and error of its own markCompleted.
C14_CompletionsDoNotInterfere ==
  [][ \A i \in Slots :
        (slots[i].kind = "callback" /\ slots'[i] # slots[i]) =>
          LET r == slots[i].body.requestId
          IN /\ \A q \in RequestIds \ {r} : tasks'[q] = tasks[q]
             /\ (At(i, "callback", "cbUpdateSetex") /\ redisUp) =>
                  /\ tasks[r].exp > now => tasks[r].val = slots[i].existing
                  /\ tasks'[r].val =
                       [slots[i].existing EXCEPT
                          !.pending = FALSE,
                          !.completedAt = slots[i].stamp,
                          !.result = OwnResult(slots[i].body),
                          !.error = OwnError(slots[i].body)] ]_vars

\* the callback of r1 has completed its task and answers while the callback
\* of r2, which has read its record and its TTL, has yet to write
C14_Witness ==
  /\ response.kind = "callback"
  /\ response.body.requestId = "r1"
  /\ ~tasks["r1"].val.pending
  /\ tasks["r1"].val.result = "out"
  /\ \E j \in Slots :
       /\ At(j, "callback", "cbUpdateSetex")
       /\ slots[j].body.requestId = "r2"
       /\ slots[j].existing.pending
  /\ tasks["r2"].val.pending
\* C15: a push goes to the wsUrl of the task the callback found when that
\* task has one, and to the wsUrl of the session it found otherwise; and a
\* callback that names a conversation id goes on from getTask to the session
\* lookup whether or not a task was found (the lookup answers absent at once
\* while the liveness flag is down).
C15_TaskAddressFirst ==
  [][ \A i \in Slots :
        /\ (At(i, "callback", "cbPush") /\ effect'.op = "pushMessage") =>
             effect'.wsUrl = IF slots[i].callbackTask.wsUrl # ""
                             THEN slots[i].callbackTask.wsUrl
                             ELSE slots[i].session.wsUrl
        /\ (At(i, "callback", "cbGetTask") /\ slots'[i] # slots[i]
            /\ slots[i].body.conversation_id # ""
            /\ redisAvailable["webhook"]) =>
             slots'[i].pc = "cbFindSession"
        /\ (At(i, "callback", "cbGetTask") /\ slots'[i] # slots[i]
            /\ slots[i].body.conversation_id = "") =>
             /\ slots'[i].pc # "cbFindSession"
             /\ slots'[i].session = NoSession
        /\ (At(i, "callback", "cbFindSession") /\ slots'[i] # slots[i]) =>
             /\ slots'[i].callbackTask = slots[i].callbackTask
             /\ slots'[i].session.sessionId # "" =>
                  slots'[i].session.conversationId
                    = slots[i].body.conversation_id ]_vars

\* a callback found its task, registered with w1, and the session, which
\* has since registered w2: the push went to w1
C15_Witness ==
  /\ effect.op = "pushMessage"
  /\ effect.wsUrl = "w1"
  /\ \E i \in Slots :
       /\ slots[i].kind = "callback"
       /\ slots[i].callbackTask.wsUrl = "w1"
       /\ slots[i].session.wsUrl = "w2"
\* C16: when the getTask of updateTask finds no record for the task id (the
\* key has expired or was never written), updateTask ends there: no TTL is
\* read and nothing is written, so no task record changes and none exists
\* for that id; the handler goes on as after a successful update and, if it
\* answers in this step, answers 200.
C16_UpdateOfAbsentTaskIsNoOp ==
  [][ \A i \in Slots :
        (/\ At(i, "callback", "cbUpdateGet")
         /\ slots'[i] # slots[i]
         /\ redisUp
         /\ tasks[slots[i].body.requestId].exp <= now) =>
          /\ UNCHANGED tasks
          /\ tasks'[slots[i].body.requestId].exp <= now
          /\ slots'[i].pc \notin {"cbUpdateTtl", "cbUpdateSetex"}
          /\ slots'[i].kind = "idle" =>
               (response'.kind = "callback" /\ response'.status = 200)
      ]_vars

\* a callback found its task, the task expired before markCompleted, and
\* the callback was answered with no record written
C16_Witness ==
  /\ response.kind = "callback"
  /\ response.status = 200
  /\ response.callbackTask.taskId = "r1"
  /\ response.existing = NoTask
  /\ redisUp
  /\ tasks["r1"] = AbsentTask
\* C17: while Redis is unreachable, a step of a SessionService method writes
\* nothing to the session keys and ends the method without an exception:
\* getSession returns null (also when the flag was still up and the GET
\* failed), createOrUpdateSession and deleteSession write nothing,
\* listAgentSessions returns [].
C17_DegradedStoreIsNoOp ==
  [][ \A i \in Slots :
        (/\ slots[i].kind = "store"
         /\ slots'[i] # slots[i]
         /\ ~redisUp) =>
          /\ UNCHANGED sessions
          /\ slots'[i] = Idle
          /\ response'.kind = "store"
          /\ ~response'.threw
          /\ response'.op = "getSession" => response'.session = NoSession
          /\ response'.op = "listAgentSessions" => response'.listed = <<>>
      ]_vars

\* a getSession of a live session was called with the flag up, its GET
\* failed, and it returned null
C17_Witness ==
  /\ response.kind = "store"
  /\ response.op = "getSession"
  /\ ~redisUp
  /\ redisAvailable["webhook"]
  /\ sessions[response.body.session_id].exp > now
  /\ response.session = NoSession
  /\ ~response.threw
\* C18: while Redis is unreachable, no step of a tool call or of a callback
\* ends its handler on a store failure. A tool call that is valid, passes the
\* secret check and finds the feature gate open is not answered on receipt;
\* a step of its handler other than executeAsync either goes on or answers
\* 200 with the request id executeAsync returned; a successful executeAsync
\* submits and any answer it gives is 200. A callback with a requestId is
\* answered, when it is, with 200.
C18_StoreFailureNotSurfaced ==
  [][ ~redisUp =>
        /\ (response'.kind = "tool" /\ ~MissingField(response'.body)
              /\ isElevenLabsEnabled
              /\ ~(env.webhookSecret # ""
                     /\ response'.body.secret \notin {"", env.webhookSecret})) =>
             /\ \E i \in Slots : slots[i].kind = "tool"
             /\ response'.status \in {200, 500}
             /\ response'.status = 500 =>
                  \E i \in Slots : At(i, "tool", "executeAsync")
             /\ response'.status = 200 =>
                  /\ response'.requestId \in RequestIds
                  /\ \/ effect'.op = "executeAsync"
                     \/ \E i \in Slots : At(i, "tool", "createTask")
        /\ (response'.kind = "callback" /\ response'.body.requestId # ""
              /\ isElevenLabsEnabled) =>
             response'.status = 200
      ]_vars

\* a tool call whose createTask failed with the connection lost and that was
\* answered 200 with its request id
C18_Witness ==
  /\ response.kind = "tool"
  /\ response.status = 200
  /\ response.requestId = "r1"
  /\ response.wsUrl # ""
  /\ ~redisUp
  /\ tasks["r1"] = AbsentTask
\* the awaits at which a handler has a Redis command of the Session Store,
\* or of the Task Registry, in flight
SessionCommandPcs ==
  {"getSession", "saveNew", "saveExisting", "saveRegistered", "cbFindSession",
   "cbSaveSession"}

TaskCommandPcs ==
  {"createTask", "cbGetTask", "cbUpdateGet", "cbUpdateTtl", "cbUpdateSetex"}

\* C19: a liveness flag changes only in a connection-event step, never in a
\* step of a handler; a handler issues a Session Store command only with the
\* flag of its SessionService up; and, the flags of the stores of one
\* connection being equal when only connection events change them, a handler
\* issues a Task Registry command only with the flag up.
C19_FlagGuardsEveryCommand ==
  [][ /\ redisAvailable' # redisAvailable => slots' = slots
      /\ \A i \in Slots :
           slots'[i].pc # slots[i].pc =>
             /\ slots'[i].pc \in SessionCommandPcs =>
                  redisAvailable[IF slots'[i].kind = "register"
                                 THEN "conversation" ELSE "webhook"]
             /\ slots'[i].pc \in TaskCommandPcs => redisAvailable["webhook"]
    ]_vars
C21_SessionExpirySlides ==
  [][ /\ \A s \in SessionIds :
           /\ (sessions'[s] # sessions[s] /\ sessions'[s].exp > now') =>
                sessions'[s].exp = now' + SESSION_TTL
           /\ sessions'[s].exp > now' => sessions'[s].exp - now' <= SESSION_TTL
           /\ now' - now >= SESSION_TTL => sessions'[s].exp <= now'
      /\ \A i \in Slots :
           (At(i, "store", "stGet") /\ slots'[i] # slots[i]) =>
             UNCHANGED sessions
    ]_vars

\* a write called at second 1 whose SETEX lands at second 2 leaves the key
\* with the full window counted from second 2
C21_Witness ==
  /\ response.kind = "store"
  /\ response.op = "createOrUpdateSession"
  /\ redisUp
  /\ now = 2
  /\ response.stamp = 1
  /\ sessions[response.session.sessionId].exp = 2 + SESSION_TTL

\* C22: when the SETEX of createTask succeeds, the key of the task holds the
\* fields createTask was given (taskId, conversationId, wsUrl, toolName,
\* toolArgs, requestId), pending = true, createdAt = the time createTask read,
\* no completion, and 86400 s to live from the write, so a GET issued at once
\* yields that record; when the SETEX fails createTask throws and no task key
\* changes.
C22_CreateTaskStoresPending ==
  [][ \A i \in Slots :
        (At(i, "tool", "createTask") /\ slots'[i] # slots[i]) =>
          LET p == slots[i]
              r == p.requestId
          IN IF redisUp
             THEN /\ tasks'[r].exp = now' + TTL
                  /\ tasks'[r].val.taskId = r
                  /\ tasks'[r].val.requestId = r
                  /\ tasks'[r].val.conversationId = p.conversationId
                  /\ tasks'[r].val.wsUrl = p.wsUrl
                  /\ tasks'[r].val.toolName = p.body.tool_name
                  /\ tasks'[r].val.toolArgs = p.body.tool_args
                  /\ tasks'[r].val.pending
                  /\ tasks'[r].val.createdAt = p.stamp
                  /\ p.stamp <= now
                  /\ tasks'[r].val.completedAt = 0
                  /\ tasks'[r].val.result = ""
                  /\ tasks'[r].val.error = ""
                  /\ \A o \in RequestIds \ {r} : tasks'[o] = tasks[o]
                  /\ ~response'.threw
             ELSE /\ UNCHANGED tasks
                  /\ response'.threw
    ]_vars

\* a task created at second 1 whose SETEX landed at second 2: createdAt is
\* 1 and the key lives 86400 s from second 2
C22_Witness ==
  /\ response.kind = "tool"
  /\ response.status = 200
  /\ response.requestId = "r1"
  /\ ~response.threw
  /\ redisUp
  /\ now = 2
  /\ tasks["r1"].val.pending
  /\ tasks["r1"].val.createdAt = 1
  /\ tasks["r1"].val.wsUrl = "w1"
  /\ tasks["r1"].exp = 2 + TTL
\* a secret is configured, the header is present, and the two differ
SecretsDiffer(b) ==
  env.webhookSecret # "" /\ b.secret # "" /\ b.secret # env.webhookSecret

\* C23 as stated: with the feature gate open, a tool call is answered 401
\* exactly when a secret is configured, the header is present and the two
\* differ.
C23_AuthRejectedIffSecretsDiffer ==
  (response.kind = "tool" /\ isElevenLabsEnabled) =>
    (response.status = 401 <=> SecretsDiffer(response.body))

\* C23, amended: with the feature gate open, a tool call that carries
\* agent_id, session_id and tool_name is answered 401 exactly when a secret
\* is configured, the header is present and the two differ (validation comes
\* first: a call lacking a required field is answered 400 whatever its
\* secret). A 401 is given by the step that receives the call, which changes
\* no session, task, conversation or flag and makes no outbound call; no call
\* whose secrets differ is ever in flight.
C23_AuthRejectedIffSecretsDifferWhenValid ==
  [][ /\ (response'.kind = "tool" /\ isElevenLabsEnabled
            /\ ~MissingField(response'.body)) =>
           (response'.status = 401 <=> SecretsDiffer(response'.body))
      /\ (response'.kind = "tool" /\ response'.status = 401) =>
           /\ SecretsDiffer(response'.body)
           /\ effect' = NoEffect
           /\ \A i \in Slots : slots[i].kind # "tool"
           /\ UNCHANGED <<sessions, tasks, convs, redisAvailable, slots>>
      /\ \A i \in Slots :
           slots'[i].kind = "tool" => ~SecretsDiffer(slots'[i].body)
    ]_vars

\* a call with a wrong secret was refused while a session was stored
C23_Witness ==
  /\ response.kind = "tool"
  /\ response.status = 401
  /\ response.body.secret = "bad"
  /\ env.webhookSecret = "sec"
  /\ sessions["s1"].val.sessionId = "s1"
\* C24: a callback without a requestId is answered by the step that receives
\* it, with 400 when the feature gate is open; that step leaves the tasks,
\* the sessions, the conversations and the flags as they were and makes no
\* outbound call (no push, no message appended), and takes no other handler
\* forward; no such callback is ever in flight past validation.
C24_CallbackWithoutRequestIdRejected ==
  [][ /\ \A i \in Slots :
           slots'[i].kind = "callback" => slots'[i].body.requestId # ""
      /\ (response'.kind = "callback" /\ response'.body.requestId = "") =>
           /\ response'.status = IF isElevenLabsEnabled THEN 400 ELSE 503
           /\ effect' = NoEffect
           /\ UNCHANGED <<sessions, tasks, convs, redisAvailable, slots>>
    ]_vars

\* a callback without requestId, naming the conversation of a stored session
\* that has a push address, was refused while a task was pending
C24_Witness ==
  /\ response.kind = "callback"
  /\ response.body.requestId = ""
  /\ response.body.conversation_id = "c1"
  /\ response.status = 400
  /\ \E s \in SessionIds :
       /\ sessions[s].exp > now
       /\ sessions[s].val.conversationId = "c1"
       /\ sessions[s].val.wsUrl # ""
  /\ \E r \in RequestIds : tasks[r].exp > now /\ tasks[r].val.pending
\* C25: when the session write of a callback succeeds, with one handler at a
\* time, the record stored is the stored record of the session the callback
\* resolved with lastAccessedAt the time of the write-back and lastCallback
\* the requestId, success and timestamp of the callback: sessionId, agentId,
\* conversationId, agentConversationId, createdAt and wsUrl are as they
\* were, and no other session changes.
C25_CallbackWritesBackOnlyLastCallback ==
  [][ \A i \in Slots :
        (At(i, "callback", "cbSaveSession") /\ slots'[i] # slots[i]
           /\ redisUp) =>
          LET sid == slots[i].session.sessionId
          IN /\ sessions[sid].exp > now
             /\ sessions[sid].val.conversationId = slots[i].body.conversation_id
             /\ sessions'[sid].val =
                  [sessions[sid].val EXCEPT
                     !.lastAccessedAt = slots[i].stamp,
                     !.lastCallback =
                        [requestId |-> slots[i].body.requestId,
                         success |-> slots[i].body.success,
                         timestamp |-> slots[i].body.timestamp]]
             /\ sessions'[sid].val.lastAccessedAt >=
                  sessions[sid].val.lastAccessedAt
             /\ \A o \in SessionIds \ {sid} : sessions'[o] = sessions[o]
    ]_vars

\* a callback of r1 was answered after its session, which has a push address
\* and a conversation, was written back with the summary of that callback
C25_Witness ==
  /\ response.kind = "callback"
  /\ response.status = 200
  /\ response.body.requestId = "r1"
  /\ response.session.sessionId = "s1"
  /\ redisUp
  /\ sessions["s1"].val.lastCallback =
       [requestId |-> "r1", success |-> response.body.success,
        timestamp |-> "ts1"]
  /\ sessions["s1"].val.wsUrl = "w1"
  /\ sessions["s1"].val.agentConversationId # ""
\* C26: with one handler at a time over a reachable store, the session write
\* of a tool call that found a live session stores the conversation_id of the
\* payload when it carries one and the stored conversationId otherwise; the
\* conversationId passed to executeAsync by a handler that holds a session is
\* the one of that session, which is the stored one; and the task created
\* holds the conversationId that was submitted.
C26_ConversationIdResolved ==
  [][ \A i \in Slots :
        LET p == slots[i]
            sid == p.body.session_id
        IN /\ (At(i, "tool", "saveExisting") /\ slots'[i] # p /\ redisUp) =>
                /\ sessions[sid].exp > now
                /\ sessions'[sid].val.conversationId =
                     IF p.body.conversation_id # ""
                     THEN p.body.conversation_id
                     ELSE sessions[sid].val.conversationId
           /\ (At(i, "tool", "executeAsync") /\ effect'.op = "executeAsync"
                 /\ p.session.sessionId # "") =>
                /\ effect'.conversationId = p.session.conversationId
                /\ p.conversationId = p.session.conversationId
                /\ sessions[sid].exp > now =>
                     sessions[sid].val.conversationId = effect'.conversationId
           /\ (At(i, "tool", "createTask") /\ slots'[i] # p /\ redisUp) =>
                tasks'[p.requestId].val.conversationId = p.conversationId
    ]_vars

\* a tool call without conversation_id on a session of conversation c1 was
\* submitted with c1 and its task holds c1
C26_Witness ==
  /\ response.kind = "tool"
  /\ response.status = 200
  /\ response.body.conversation_id = ""
  /\ response.conversationId = "c1"
  /\ response.requestId \in RequestIds
  /\ tasks[response.requestId].val.conversationId = "c1"
  /\ sessions[response.body.session_id].val.conversationId = "c1"
\* C27: with the feature gate open, a registration without sessionUrl is
\* answered 400 by the step that receives it, which writes nothing, and none
\* is in flight past validation; the session write of a registration stores,
\* under the session id given (or the generated one), a session with that
\* id, the conversation id of the path and wsUrl = sessionUrl, with the full
\* window; and, with one handler at a time, a tool call that holds a session
\* whose wsUrl is set holds the stored wsUrl of its session id, goes on to
\* createTask once executeAsync has returned, and createTask stores the task
\* with that wsUrl.
C27_RegistrationStoresAddress ==
  [][ /\ \A i \in Slots :
           slots'[i].kind = "register" => slots'[i].body.sessionUrl # ""
      /\ (response'.kind = "register" /\ response'.body.sessionUrl = "") =>
           /\ response'.status = IF isElevenLabsEnabled THEN 400 ELSE 503
           /\ effect' = NoEffect
           /\ UNCHANGED <<sessions, tasks, convs, redisAvailable, slots>>
      /\ \A i \in Slots :
           LET p == slots[i]
           IN /\ (At(i, "register", "saveRegistered") /\ slots'[i] # p
                    /\ redisUp) =>
                   LET sid == IF p.body.session_id # "" THEN p.body.session_id
                              ELSE GeneratedSessionId
                   IN /\ sessions'[sid].exp = now' + SESSION_TTL
                      /\ sessions'[sid].val.sessionId = sid
                      /\ sessions'[sid].val.conversationId =
                           p.body.conversation_id
                      /\ sessions'[sid].val.wsUrl = p.body.sessionUrl
                      /\ response'.status = 200
                      /\ \A o \in SessionIds \ {sid} : sessions'[o] = sessions[o]
              /\ (At(i, "tool", "executeAsync") /\ p.session.wsUrl # "") =>
                   /\ sessions[p.body.session_id].exp > now
                   /\ sessions[p.body.session_id].val.wsUrl = p.session.wsUrl
                   /\ effect'.op = "executeAsync" =>
                        /\ slots'[i].pc = "createTask"
                        /\ slots'[i].wsUrl = p.session.wsUrl
              /\ (At(i, "tool", "createTask") /\ slots'[i] # p /\ redisUp) =>
                   /\ tasks'[p.requestId].val.wsUrl = p.session.wsUrl
                   /\ p.session.wsUrl # ""
    ]_vars

\* a registration that named no session id stored its session under the
\* generated id, and a later tool call on that id registered its task with
\* the address registered
C27_Witness ==
  /\ response.kind = "tool"
  /\ response.status = 200
  /\ response.body.session_id = GeneratedSessionId
  /\ response.requestId \in RequestIds
  /\ sessions[GeneratedSessionId].val.agentId = "default"
  /\ sessions[GeneratedSessionId].val.conversationId = "c1"
  /\ sessions[GeneratedSessionId].val.wsUrl = "w1"
  /\ tasks[response.requestId].val.wsUrl = "w1"
\* C28: findSessionByConversationId(c) answers absent without a command when
\* the flag is down, and absent when KEYS or a GET fails or no key is live;
\* each GET of its scan, taken in the order of KEYS, ends the scan with the
\* value read when that is a live session of conversation c, goes on to the
\* next key when it is not, and answers absent after the last key; so the
\* session returned is the first of conversation c in scan order, it is live,
\* and its conversationId is c.
C28_FindReturnsFirstOfConversation ==
  [][ /\ \A i \in Slots :
           LET p == slots[i]
               c == p.body.conversation_id
           IN /\ (At(i, "store", "stFindKeys") /\ slots'[i] # p) =>
                   IF redisUp /\ \E s \in SessionIds : sessions[s].exp > now
                   THEN /\ slots'[i].pc = "stFindGet"
                        /\ \A s \in SessionIds :
                             sessions[s].exp > now <=>
                               \E n \in 1..Len(slots'[i].keys) :
                                 slots'[i].keys[n] = s
                   ELSE response'.session = NoSession /\ ~response'.threw
              /\ (At(i, "store", "stFindGet") /\ slots'[i] # p) =>
                   LET k == Head(p.keys)
                       hit == /\ redisUp
                              /\ sessions[k].exp > now
                              /\ sessions[k].val.conversationId = c
                   IN /\ hit => /\ response'.session = sessions[k].val
                                /\ slots'[i] = Idle
                      /\ ~hit =>
                           IF redisUp /\ Len(p.keys) > 1
                           THEN /\ slots'[i].pc = "stFindGet"
                                /\ slots'[i].keys = Tail(p.keys)
                           ELSE /\ response'.session = NoSession
                                /\ ~response'.threw
      /\ (response'.kind = "store"
            /\ response'.op = "findSessionByConversationId") =>
           /\ UNCHANGED sessions
           /\ response'.session # NoSession =>
                /\ redisUp
                /\ response'.session.conversationId =
                     response'.body.conversation_id
                /\ sessions[response'.session.sessionId].exp > now
                /\ sessions[response'.session.sessionId].val = response'.session
    ]_vars

\* two sessions of conversation c2 are live and the scan, which took the key
\* of s2 first, returned s2
C28_Witness ==
  /\ response.kind = "store"
  /\ response.op = "findSessionByConversationId"
  /\ response.body.conversation_id = "c2"
  /\ response.session.sessionId = "s2"
  /\ sessions["s1"].exp > now
  /\ sessions["s1"].val.conversationId = "c2"
  /\ sessions["s2"].val.conversationId = "c2"
  /\ Len(response.keys) = 2
\* the callback whose completion message is pushed in this step
Pushing(b) ==
  \/ \E i \in Slots :
       At(i, "callback", "cbPush") /\ slots'[i] # slots[i] /\ slots[i].body = b
  \/ response'.kind = "push" /\ response'.body = b

\* C29: every message pushed is the completion message of the callback being
\* handled: its type is input_text; for a success its text is the "complete"
\* sentence with the output, or with "Task completed successfully" when the
\* output is missing; for a failure it is the "error" sentence with the error
\* text, or with "Task failed with unknown error" when that is missing.
\* pushMessage called with an empty wsUrl throws and pushes nothing; with a
\* wsUrl it pushes to that wsUrl.
C29_CompletionMessageOfCallback ==
  [][ /\ effect'.op = "pushMessage" =>
           \E b \in PushCallbackBodies \cup CallbackBodies :
             /\ Pushing(b)
             /\ effect'.text[1] = "input_text"
             /\ effect'.text[2] = IF b.success
                                  THEN "Your code task is complete."
                                  ELSE "Your code task encountered an error."
             /\ effect'.text[3] =
                  IF b.success
                  THEN (IF b.output # "" THEN b.output
                        ELSE "Task completed successfully")
                  ELSE (IF b.error # "" THEN b.error
                        ELSE "Task failed with unknown error")
             /\ Len(effect'.text) = 3
      /\ response'.kind = "push" =>
           IF response'.wsUrl = ""
           THEN response'.threw /\ effect' = NoEffect
           ELSE /\ ~response'.threw
                /\ effect'.op = "pushMessage"
                /\ effect'.wsUrl = response'.wsUrl
    ]_vars

\* the handler pushed, for a failure that carried an output and no error
\* text, the message of a failure with the generic phrase
C29_Witness ==
  /\ effect.op = "pushMessage"
  /\ effect.text = <<"input_text", "Your code task encountered an error.",
                     "Task failed with unknown error">>
  /\ \E i \in Slots :
       /\ slots[i].kind = "callback"
       /\ ~slots[i].body.success
       /\ slots[i].body.error = ""
       /\ slots[i].body.output = "out"
GatedRoutes == {"signedUrl", "tool", "callback", "register"}

FlagOn == env.enabled \in {"true", "True", "TRUE"}

CallbackRank(pc) ==
  CASE pc = "idle" -> 0
    [] pc = "cbGetTask" -> 1
    [] pc = "cbFindSession" -> 2
    [] pc = "cbPush" -> 3
    [] pc = "cbUpdateGet" -> 4
    [] pc = "cbUpdateTtl" -> 5
    [] pc = "cbUpdateSetex" -> 6
    [] pc = "cbSaveSession" -> 7
    [] pc = "cbAddMessage" -> 8
    [] OTHER -> 9

MarkCompletedPcs == {"cbUpdateGet", "cbUpdateTtl", "cbUpdateSetex"}

\* C31: a callback handler moves forward through push, markCompleted, session
\* write and message append, in that order: a push is made only at the push
\* step, tasks are written only by the SETEX of markCompleted and sessions
\* only by the session write, which come later.  Whatever the push did, a
\* handler that holds a task goes on to markCompleted, whose SETEX, when it
\* succeeds, stores pending = false and the completion time; whatever
\* markCompleted did, a handler that holds a session goes on to the session
\* write (issued when the liveness flag is up), which, when it succeeds,
\* stores the callback; whatever the message append did, the handler ends;
\* and it always ends with 200.
C31_CallbackBestEffort ==
  [][ \A i \in Slots :
        (slots[i].kind = "callback" /\ slots'[i] # slots[i]) =>
          LET p == slots[i]
              next == IF slots'[i] = Idle THEN "done" ELSE slots'[i].pc
              r == p.body.requestId
              sid == p.session.sessionId
          IN /\ CallbackRank(next) > CallbackRank(p.pc)
             /\ effect'.op = "pushMessage" => p.pc = "cbPush"
             /\ tasks' # tasks => p.pc = "cbUpdateSetex"
             /\ sessions' # sessions => p.pc = "cbSaveSession"
             /\ (p.pc = "cbPush" /\ p.callbackTask.taskId # "") =>
                  next = "cbUpdateGet"
             /\ (p.pc = "cbUpdateSetex" /\ redisUp) =>
                  /\ ~tasks'[r].val.pending
                  /\ tasks'[r].val.completedAt = p.stamp
             /\ (p.pc \in MarkCompletedPcs \cup {"cbPush"}
                   /\ next \notin MarkCompletedPcs) =>
                  next = IF sid # "" /\ redisAvailable["webhook"]
                         THEN "cbSaveSession"
                         ELSE IF sid # "" /\ p.session.agentConversationId # ""
                              THEN "cbAddMessage"
                              ELSE "done"
             /\ (p.pc = "cbSaveSession" /\ redisUp) =>
                  /\ sessions'[sid].exp > now'
                  /\ sessions'[sid].val.lastCallback.requestId = r
             /\ p.pc = "cbSaveSession" =>
                  next = IF p.session.agentConversationId # ""
                         THEN "cbAddMessage" ELSE "done"
             /\ p.pc = "cbAddMessage" => next = "done"
             /\ next = "done" => response'.status = 200
    ]_vars

\* a push that failed (no outbound call was made at the push step) and a
\* handler that is on its way through markCompleted all the same
C31_Witness ==
  /\ slots[1].kind = "callback"
  /\ slots[1].pc = "cbUpdateGet"
  /\ slots[1].wsUrl # ""
  /\ slots[1].session.sessionId # ""
  /\ effect = NoEffect

\* the fields of a task that updateTask is not given
TaskFrame(t) ==
  <<t.taskId, t.conversationId, t.sessionPayload, t.wsUrl, t.toolName,
    t.toolArgs, t.requestId, t.createdAt>>

\* C32: the SETEX of updateTask (markCompleted) stores a record whose taskId,
\* conversationId, sessionPayload, wsUrl, toolName, toolArgs, requestId and
\* createdAt are those of the record updateTask read, which are those of the
\* record stored just before the write when that key is still live; no step
\* of a callback other than that SETEX changes a task, and that SETEX
\* changes no other task.
C32_UpdateKeepsOtherFields ==
  [][ \A i \in Slots :
        (slots[i].kind = "callback" /\ slots'[i] # slots[i]) =>
          LET p == slots[i]
              r == p.body.requestId
          IN IF p.pc = "cbUpdateSetex" /\ redisUp
             THEN /\ TaskFrame(tasks'[r].val) = TaskFrame(p.existing)
                  /\ p.existing.taskId = r
                  /\ tasks[r].exp > now =>
                       TaskFrame(tasks'[r].val) = TaskFrame(tasks[r].val)
                  /\ \A o \in RequestIds \ {r} : tasks'[o] = tasks[o]
             ELSE UNCHANGED tasks
    ]_vars

\* a task with an address, a tool and arguments, completed a second after it
\* was created
C32_Witness ==
  /\ response.kind = "callback"
  /\ response.status = 200
  /\ tasks["r1"].exp > now
  /\ ~tasks["r1"].val.pending
  /\ tasks["r1"].val.wsUrl = "w1"
  /\ tasks["r1"].val.toolName # ""
  /\ tasks["r1"].val.createdAt = 1
  /\ tasks["r1"].val.completedAt = 2

\* C33: the write of updateTask finds the record still live and leaves its
\* expiry no later than it was, so that a record is gone 86400 s after its
\* creation whether or not it was completed: no update brings back a record
\* that expired, and none moves the expiry createTask set.
C33_TaskGoneAfterADay ==
  [][ \A i \in Slots :
        (At(i, "callback", "cbUpdateSetex") /\ tasks' # tasks) =>
          LET r == slots[i].body.requestId
          IN /\ tasks[r].exp > now
             /\ tasks'[r].exp <= tasks[r].exp ]_vars

\* the awaits at which a handler has the SETEX of a session in flight
SessionWritePcs == {"saveNew", "saveExisting", "saveRegistered", "cbSaveSession"}

\* C34: with requests for one session in flight together, the stored
\* sessions change only in the step in which the SETEX of one handler lands,
\* and that step replaces the whole record of that session id by the record
\* that handler built (stamped with the time it read), live for 3600 s, and
\* touches no other session: whatever the other handler stored before is
\* gone from it, every field is the writer's, and a record is never removed
\* by a handler.
C34_LastWriteWins ==
  [][ /\ sessions' # sessions =>
           \E i \in Slots :
             /\ slots[i].pc \in SessionWritePcs
             /\ slots'[i] # slots[i]
      /\ \A i \in Slots :
           (slots[i].pc \in SessionWritePcs /\ slots'[i] # slots[i]
              /\ redisUp) =>
             LET p == slots[i]
                 sid == p.session.sessionId
             IN /\ sessions'[sid].val.sessionId = sid
                /\ sessions'[sid].val.agentId = p.session.agentId
                /\ sessions'[sid].val.conversationId = p.session.conversationId
                /\ sessions'[sid].val.agentConversationId =
                     p.session.agentConversationId
                /\ sessions'[sid].val.createdAt = p.session.createdAt
                /\ sessions'[sid].val.wsUrl = p.session.wsUrl
                /\ sessions'[sid].val.lastCallback = p.session.lastCallback
                /\ sessions'[sid].val.lastAccessedAt = p.stamp
                /\ sessions'[sid].exp = now + SESSION_TTL
                /\ \A o \in SessionIds \ {sid} : sessions'[o] = sessions[o]
    ]_vars

\* a callback has written its result into the session while a tool call for
\* the same session, which read the record before, is about to write it back
\* without that result
C34_Witness ==
  \E i, j \in Slots :
    /\ slots[i].kind = "tool"
    /\ slots[i].pc = "saveExisting"
    /\ slots[i].session.sessionId = "s1"
    /\ slots[i].session.lastCallback = NoCallback
    /\ slots[j].kind = "callback"
    /\ slots[j].pc = "cbAddMessage"
    /\ slots[j].session.sessionId = "s1"
    /\ sessions["s1"].val.lastCallback.requestId = "r1"

\* C35: once the tool call that submitted request r1 and the callback of r1
\* have both finished (no handler is in flight and the session holds the
\* result of the callback of r1), the task of r1 is not left stored with
\* pending = true.
C35_NoTaskLeftPending ==
  ((\A i \in Slots : slots[i] = Idle)
     /\ sessions["s1"].exp > now
     /\ sessions["s1"].val.lastCallback.requestId = "r1")
    => ~(tasks["r1"].exp > now /\ tasks["r1"].val.pending)

\* the live sessions of conversation c
LiveOfConversation(c) ==
  { k \in SessionIds :
      sessions[k].exp > now /\ sessions[k].val.conversationId = c }

\* C36: when the lookup by conversation id ends for a callback that no task
\* resolved, the session it yields is the one whose tool call submitted the
\* request (s1, the only session tool calls are made for) whenever that
\* session is live under the conversation id, and the handler goes on to
\* push whenever a live session of the conversation holds a registered
\* address.
C36_PushToOriginatingSession ==
  [][ \A i \in Slots :
        (At(i, "callback", "cbFindSession") /\ slots'[i] # slots[i]
           /\ redisUp /\ slots[i].callbackTask.taskId = "") =>
          LET h == IF slots'[i] = Idle THEN response' ELSE slots'[i]
              live == LiveOfConversation(slots[i].body.conversation_id)
          IN /\ "s1" \in live => h.session.sessionId = "s1"
             /\ (\E k \in live : sessions[k].val.wsUrl # "") =>
                  /\ h.pc = "cbPush"
                  /\ h.wsUrl # ""
    ]_vars

\* C37: no step of a callback handler stores a session or a task under a key
\* that holds no live record at that moment: a record that expired after the
\* handler read it is not written again, and a callback whose request id and
\* conversation id are unknown changes neither store.
C37_CallbackCreatesNoRecord ==
  [][ (\E i \in Slots : slots[i].kind = "callback" /\ slots'[i] # slots[i]) =>
        /\ \A s \in SessionIds :
             sessions[s].exp <= now => sessions'[s] = sessions[s]
        /\ \A r \in RequestIds :
             tasks[r].exp <= now => tasks'[r] = tasks[r] ]_vars

\* C38: the address stored in a live session changes only when the write of
\* a registration lands: no step of a tool call or of a callback, in any
\* interleaving with a registration, removes the stored wsUrl or replaces it
\* by another, so that it is always the one registered last.
C38_RegisteredAddressKept ==
  [][ \A s \in SessionIds :
        (sessions[s].exp > now /\ sessions[s].val.wsUrl # ""
           /\ sessions'[s] # sessions[s]) =>
          \/ sessions'[s].val.wsUrl = sessions[s].val.wsUrl
          \/ \E i \in Slots : /\ At(i, "register", "saveRegistered")
                               /\ slots'[i] # slots[i] ]_vars

\* C39: every live task has a completion time exactly when it is not
\* pending, and never both a result and an error; the SETEX of markCompleted
\* for a callback with success = true stores a result and no error, for one
\* with success = false no result (and the error of that callback), whatever
\* the record held before.
C39_CompletionFieldsConsistent ==
  [][ /\ \A r \in RequestIds :
           tasks'[r].exp > now' =>
             /\ (tasks'[r].val.completedAt # 0) <=> ~tasks'[r].val.pending
             /\ ~(tasks'[r].val.result # "" /\ tasks'[r].val.error # "")
      /\ \A i \in Slots :
           (At(i, "callback", "cbUpdateSetex") /\ tasks' # tasks) =>
             LET b == slots[i].body
                 t == tasks'[b.requestId].val
             IN /\ ~t.pending
                /\ b.success => (t.result # "" /\ t.error = "")
                /\ ~b.success => (t.result = "" /\ t.error = b.error)
    ]_vars

\* a task first completed with a result, then completed again by a failed
\* callback: the record holds the error alone
C39_Witness ==
  /\ response.kind = "callback"
  /\ response.status = 200
  /\ ~response.body.success
  /\ response.callbackTask.result # ""
  /\ ~response.callbackTask.pending
  /\ tasks[response.body.requestId].exp > now
  /\ tasks[response.body.requestId].val.result = ""
  /\ tasks[response.body.requestId].val.error = "err"

\* the SessionService a handler of that kind uses
ServiceOf(kind) == IF kind = "register" THEN "conversation" ELSE "webhook"

\* C40: the liveness flag of every SessionService is false after
\* construction; it becomes true only in the step of a connect event; it
\* becomes false only in the step of an error event or in the step in which
\* the SETEX of a session write fails, and a failed SETEX always leaves the
\* flag of its service false; while the flag is false a method that is
\* called returns at once with nothing (null, []), writes nothing and issues
\* no command, and the flag stays false until a connect event.
C40_FlagLifeCycle ==
  /\ \A svc \in Services : ~redisAvailable[svc]
  /\ [][ /\ \A svc \in Services :
             /\ (~redisAvailable[svc] /\ redisAvailable'[svc]) =>
                  (~redisUp /\ redisUp' /\ slots' = slots)
             /\ (redisAvailable[svc] /\ ~redisAvailable'[svc]) =>
                  \/ slots' = slots /\ ~redisUp /\ ~redisUp'
                  \/ \E i \in Slots :
                       /\ slots[i].pc \in SessionWritePcs \cup {"stSetex"}
                       /\ ServiceOf(slots[i].kind) = svc
                       /\ slots'[i] # slots[i]
                       /\ ~redisUp
         /\ \A i \in Slots :
             (slots[i].pc \in SessionWritePcs \cup {"stSetex"}
                /\ slots'[i] # slots[i] /\ ~redisUp) =>
               /\ ~redisAvailable'[ServiceOf(slots[i].kind)]
               /\ UNCHANGED sessions
         /\ ((\A i \in Slots : slots[i] = Idle)
               /\ ~redisAvailable["webhook"]) =>
             \A i \in Slots : slots'[i].kind # "store"
         /\ ((\A i \in Slots : slots[i] = Idle)
               /\ ~redisAvailable["webhook"] /\ response'.kind = "store") =>
             /\ response'.session \in {NoSession} \cup StoreSessions
             /\ response'.op # "createOrUpdateSession" =>
                  response'.session = NoSession
             /\ response'.listed = <<>>
             /\ ~response'.threw
             /\ UNCHANGED <<sessions, redisAvailable>>
       ]_vars

\* a session write failed with the connection lost and cleared the flag of
\* its own SessionService (an error event would have cleared both)
C40_Witness ==
  /\ response.kind = "store"
  /\ response.op = "createOrUpdateSession"
  /\ ~redisUp
  /\ ~redisAvailable["webhook"]
  /\ redisAvailable["conversation"]

====
